---- MODULE Spec2Model ----
(***************************************************************************)
(* State-machine model of the two on-chain registries of VeryFi:           *)
(*   - HealthAuthorityRegistry  (contracts/contracts/HealthAuthorityRegistry.sol) *)
(*   - ZKHealthPassRegistry     (unnamed/part_004, the Solidity part)      *)
(* Every external function is one action.  A call that reverts rolls back  *)
(* every storage write (EVM semantics): it leaves every variable as it was.*)
(* What a call would answer in the current state is given by the ...Err    *)
(* operators, which evaluate the checks of the function in source order.   *)
(* Names shared by both contracts carry the prefix har / zk.               *)
(***************************************************************************)
EXTENDS Integers, Sequences, FiniteSets, TLC

(***************************************************************************)
(* Bounds of the model                                                     *)
(***************************************************************************)
MaxTime == 2
MaxProofHash == 1
MaxRecordHash == 1
MaxVerifications == 2
MaxRecords == 1
MaxScopeProofHash == 2

(***************************************************************************)
(* Input domains                                                           *)
(***************************************************************************)
NoWallet == "null"

ZeroAddress == "0x0"
Admin == "admin"
Identities == {"admin", "alice", "bob"}
Names == {"City Hospital", "Clinic"}
AuthorityType == {"Hospital"}
Countries == {"KE"}
ContactInfos == {"c0"}
CertificateHashes == {"Qm0"}
Reasons == {"incomplete"}
Contexts == {"Airport Security"}
AuthorityStatus == {"Pending", "Active", "Suspended", "Revoked"}
PublicKeyLength == 64
KeyLengths == {64, 33}
ProofHashes == 0..MaxProofHash
ScopeProofHashes == 0..MaxScopeProofHash
RecordHashes == 0..MaxRecordHash
ExpiryTimes == 0..MaxTime

VARIABLES
    \* HealthAuthorityRegistry storage
    harHealthAuthorities, applications, nameToAddress,
    authoritiesByType, authoritiesByCountry,
    allAuthorities, pendingApplications,
    harTotalAuthorities, activeAuthorities, pendingApplicationsCount,
    harPaused,
    \* ZKHealthPassRegistry storage
    zkHealthAuthorities, zkProofs, verificationHistory,
    authorityAddresses, proofHashes,
    zkTotalAuthorities, totalProofs, totalVerifications,
    zkPaused,
    \* HealthPassService and its WalletService (off-chain)
    proofs,          \* the values of the Map proofs, by proofHash
    proofOrder,      \* the Map's keys in insertion order
    walletAddress,   \* walletData.address
    isInitialized,   \* WalletService.isInitialized
    \* environment
    now,     \* block.timestamp, Date.now()
    last     \* the last call that completed: [op, caller, ret]

harVars == <<harHealthAuthorities, applications, nameToAddress,
             authoritiesByType, authoritiesByCountry,
             allAuthorities, pendingApplications,
             harTotalAuthorities, activeAuthorities, pendingApplicationsCount,
             harPaused>>

zkVars == <<zkHealthAuthorities, zkProofs, verificationHistory,
            authorityAddresses, proofHashes,
            zkTotalAuthorities, totalProofs, totalVerifications,
            zkPaused>>

svcVars == <<proofs, proofOrder, walletAddress, isInitialized>>

vars == <<harVars, zkVars, svcVars, now, last>>

(***************************************************************************)
(* Roles: initialize(admin) grants every role to the admin in both         *)
(* contracts; no other grant is made by the contracts themselves.          *)
(***************************************************************************)
harHasRole(role, who) == who = Admin

zkHasRole(role, who) == who = Admin

(***************************************************************************)
(* Zero values of the storage structs                                      *)
(***************************************************************************)
NoHarAuthority ==
    [name |-> "", authorityType |-> "Hospital", country |-> "",
     contactInfo |-> "", certificateHash |-> "",
     status |-> "Pending", registeredAt |-> 0, lastUpdated |-> 0,
     registeredBy |-> ZeroAddress,
     totalRecordsIssued |-> 0, totalRecordsRevoked |-> 0]

NoApplication ==
    [applicant |-> ZeroAddress, name |-> "", authorityType |-> "Hospital",
     country |-> "", contactInfo |-> "", certificateHash |-> "",
     appliedAt |-> 0, isProcessed |-> FALSE, rejectionReason |-> ""]

NoZkAuthority ==
    [isActive |-> FALSE, registeredAt |-> 0, totalRecordsIssued |-> 0,
     revokedRecords |-> {}]

NoProof ==
    [proofHash |-> 0, healthRecordHash |-> 0, authority |-> ZeroAddress,
     generatedAt |-> 0, expiresAt |-> 0, isRevoked |-> FALSE,
     verificationCount |-> 0]

Init ==
    /\ harHealthAuthorities = [a \in Identities |-> NoHarAuthority]
    /\ applications = [a \in Identities |-> NoApplication]
    /\ nameToAddress = [n \in Names |-> ZeroAddress]
    /\ authoritiesByType = [t \in AuthorityType |-> <<>>]
    /\ authoritiesByCountry = [c \in Countries |-> <<>>]
    /\ allAuthorities = <<>>
    /\ pendingApplications = <<>>
    /\ harTotalAuthorities = 0
    /\ activeAuthorities = 0
    /\ pendingApplicationsCount = 0
    /\ harPaused = FALSE
    /\ zkHealthAuthorities = [a \in Identities |-> NoZkAuthority]
    /\ zkProofs = [p \in ProofHashes |-> NoProof]
    /\ verificationHistory = [p \in ProofHashes |-> <<>>]
    /\ authorityAddresses = <<>>
    /\ proofHashes = <<>>
    /\ zkTotalAuthorities = 0
    /\ totalProofs = 0
    /\ totalVerifications = 0
    /\ zkPaused = FALSE
    /\ proofs = <<>>
    /\ proofOrder = <<>>
    /\ walletAddress = NoWallet
    /\ isInitialized = FALSE
    /\ now = 1
    /\ last = [op |-> "initialize", caller |-> Admin, ret |-> FALSE]

(***************************************************************************)
(* A reverted call: every storage write is rolled back.                    *)
(***************************************************************************)
Revert(op, e) == UNCHANGED vars

Done(op, caller, r) == last' = [op |-> op, caller |-> caller, ret |-> r]

(***************************************************************************)
(* HealthAuthorityRegistry                                                 *)
(***************************************************************************)
\* mutant: the ApplicationAlreadyExists check is missing
submitApplicationErrNoExists(caller, name, keyLen) ==
    IF harPaused THEN "EnforcedPause"
    ELSE IF harHealthAuthorities[caller].registeredAt # 0 THEN "AuthorityAlreadyExists"
    ELSE IF nameToAddress[name] # ZeroAddress THEN "NameAlreadyTaken"
    ELSE IF keyLen # PublicKeyLength THEN "InvalidPublicKey"
    ELSE "none"

\* mutant: only a live (unprocessed) application blocks a new one
submitApplicationErrLiveOnly(caller, name, keyLen) ==
    IF harPaused THEN "EnforcedPause"
    ELSE IF applications[caller].appliedAt # 0 /\ ~applications[caller].isProcessed
    THEN "ApplicationAlreadyExists"
    ELSE IF harHealthAuthorities[caller].registeredAt # 0 THEN "AuthorityAlreadyExists"
    ELSE IF nameToAddress[name] # ZeroAddress THEN "NameAlreadyTaken"
    ELSE IF keyLen # PublicKeyLength THEN "InvalidPublicKey"
    ELSE "none"

\* mutant: the authority record is looked up before the application
submitApplicationErrRecordFirst(caller, name, keyLen) ==
    IF harPaused THEN "EnforcedPause"
    ELSE IF harHealthAuthorities[caller].registeredAt # 0 THEN "AuthorityAlreadyExists"
    ELSE IF applications[caller].appliedAt # 0 THEN "ApplicationAlreadyExists"
    ELSE IF nameToAddress[name] # ZeroAddress THEN "NameAlreadyTaken"
    ELSE IF keyLen # PublicKeyLength THEN "InvalidPublicKey"
    ELSE "none"

submitApplicationErr(caller, name, keyLen) ==
    IF harPaused THEN "EnforcedPause"
    ELSE IF applications[caller].appliedAt # 0 THEN "ApplicationAlreadyExists"
    ELSE IF harHealthAuthorities[caller].registeredAt # 0 THEN "AuthorityAlreadyExists"
    ELSE IF nameToAddress[name] # ZeroAddress THEN "NameAlreadyTaken"
    ELSE IF keyLen # PublicKeyLength THEN "InvalidPublicKey"
    ELSE "none"

submitApplication(caller, name, authorityType, country, keyLen, certificateHash, contactInfo) ==
    LET e == submitApplicationErr(caller, name, keyLen) IN
    IF e # "none" THEN Revert("submitApplication", e)
    ELSE
        /\ applications' = [applications EXCEPT ![caller] =
               [applicant |-> caller, name |-> name,
                authorityType |-> authorityType, country |-> country,
                contactInfo |-> contactInfo,
                certificateHash |-> certificateHash,
                appliedAt |-> now, isProcessed |-> FALSE,
                rejectionReason |-> ""]]
        /\ pendingApplications' = Append(pendingApplications, caller)
        /\ pendingApplicationsCount' = pendingApplicationsCount + 1
        /\ Done("submitApplication", caller, FALSE)
        /\ UNCHANGED <<harHealthAuthorities, nameToAddress, authoritiesByType,
                       authoritiesByCountry, allAuthorities,
                       harTotalAuthorities, activeAuthorities, harPaused,
                       zkVars, svcVars, now>>

\* index of the first occurrence of applicant in list, 0 when absent
FirstIndex(list, applicant) ==
    IF \E i \in 1..Len(list) : list[i] = applicant
    THEN CHOOSE i \in 1..Len(list) :
            /\ list[i] = applicant
            /\ \A j \in 1..(i - 1) : list[j] # applicant
    ELSE 0

\* mutant: the last entry is dropped without the swap
_removePendingApplicationPopOnly(list, applicant) ==
    LET i == FirstIndex(list, applicant) IN
    IF i = 0 THEN list
    ELSE SubSeq(list, 1, Len(list) - 1)

\* swap-and-pop removal of the first occurrence
_removePendingApplication(list, applicant) ==
    LET i == FirstIndex(list, applicant) IN
    IF i = 0 THEN list
    ELSE SubSeq([list EXCEPT ![i] = list[Len(list)]], 1, Len(list) - 1)

\* mutant: the onlyRole(REGISTRAR_ROLE) modifier is missing
approveApplicationErrNoRole(caller, applicant) ==
    IF harPaused THEN "EnforcedPause"
    ELSE IF applications[applicant].appliedAt = 0 THEN "ApplicationNotFound"
    ELSE IF applications[applicant].isProcessed THEN "ApplicationAlreadyExists"
    ELSE IF pendingApplicationsCount = 0 THEN "Panic"
    ELSE "none"

\* mutant: the isProcessed check is missing
approveApplicationErrNoProcessed(caller, applicant) ==
    IF ~harHasRole("REGISTRAR_ROLE", caller) THEN "AccessControlUnauthorizedAccount"
    ELSE IF harPaused THEN "EnforcedPause"
    ELSE IF applications[applicant].appliedAt = 0 THEN "ApplicationNotFound"
    ELSE IF pendingApplicationsCount = 0 THEN "Panic"
    ELSE "none"

approveApplicationErr(caller, applicant) ==
    IF ~harHasRole("REGISTRAR_ROLE", caller) THEN "AccessControlUnauthorizedAccount"
    ELSE IF harPaused THEN "EnforcedPause"
    ELSE IF applications[applicant].appliedAt = 0 THEN "ApplicationNotFound"
    ELSE IF applications[applicant].isProcessed THEN "ApplicationAlreadyExists"
    ELSE IF pendingApplicationsCount = 0 THEN "Panic"
    ELSE "none"

\* mutant: the application is not marked as processed
approveApplicationKeepsLive(caller, applicant) ==
    LET e == approveApplicationErr(caller, applicant)
        app == applications[applicant] IN
    IF e # "none" THEN Revert("approveApplication", e)
    ELSE
        /\ harHealthAuthorities' = [harHealthAuthorities EXCEPT ![applicant] =
               [name |-> app.name, authorityType |-> app.authorityType,
                country |-> app.country, contactInfo |-> app.contactInfo,
                certificateHash |-> app.certificateHash,
                status |-> "Active", registeredAt |-> now,
                lastUpdated |-> now, registeredBy |-> caller,
                totalRecordsIssued |-> 0, totalRecordsRevoked |-> 0]]
        /\ nameToAddress' = [nameToAddress EXCEPT ![app.name] = applicant]
        /\ authoritiesByType' = [authoritiesByType EXCEPT
               ![app.authorityType] = Append(@, applicant)]
        /\ authoritiesByCountry' = [authoritiesByCountry EXCEPT
               ![app.country] = Append(@, applicant)]
        /\ allAuthorities' = Append(allAuthorities, applicant)
        /\ harTotalAuthorities' = harTotalAuthorities + 1
        /\ activeAuthorities' = activeAuthorities + 1
        /\ pendingApplicationsCount' = pendingApplicationsCount - 1
        /\ pendingApplications' =
               _removePendingApplication(pendingApplications, applicant)
        /\ Done("approveApplication", caller, FALSE)
        /\ UNCHANGED <<applications, harPaused, zkVars, svcVars, now>>

approveApplication(caller, applicant) ==
    LET e == approveApplicationErr(caller, applicant)
        app == applications[applicant] IN
    IF e # "none" THEN Revert("approveApplication", e)
    ELSE
        /\ harHealthAuthorities' = [harHealthAuthorities EXCEPT ![applicant] =
               [name |-> app.name, authorityType |-> app.authorityType,
                country |-> app.country, contactInfo |-> app.contactInfo,
                certificateHash |-> app.certificateHash,
                status |-> "Active", registeredAt |-> now,
                lastUpdated |-> now, registeredBy |-> caller,
                totalRecordsIssued |-> 0, totalRecordsRevoked |-> 0]]
        /\ nameToAddress' = [nameToAddress EXCEPT ![app.name] = applicant]
        /\ authoritiesByType' = [authoritiesByType EXCEPT
               ![app.authorityType] = Append(@, applicant)]
        /\ authoritiesByCountry' = [authoritiesByCountry EXCEPT
               ![app.country] = Append(@, applicant)]
        /\ allAuthorities' = Append(allAuthorities, applicant)
        /\ applications' = [applications EXCEPT ![applicant].isProcessed = TRUE]
        /\ harTotalAuthorities' = harTotalAuthorities + 1
        /\ activeAuthorities' = activeAuthorities + 1
        /\ pendingApplicationsCount' = pendingApplicationsCount - 1
        /\ pendingApplications' =
               _removePendingApplication(pendingApplications, applicant)
        /\ Done("approveApplication", caller, FALSE)
        /\ UNCHANGED <<harPaused, zkVars, svcVars, now>>

rejectApplicationErr(caller, applicant) ==
    IF ~harHasRole("REGISTRAR_ROLE", caller) THEN "AccessControlUnauthorizedAccount"
    ELSE IF harPaused THEN "EnforcedPause"
    ELSE IF applications[applicant].appliedAt = 0 THEN "ApplicationNotFound"
    ELSE IF applications[applicant].isProcessed THEN "ApplicationAlreadyExists"
    ELSE IF pendingApplicationsCount = 0 THEN "Panic"
    ELSE "none"

\* mutant: the rejected applicant's record is set Active
rejectApplicationActivates(caller, applicant, reason) ==
    LET e == rejectApplicationErr(caller, applicant) IN
    IF e # "none" THEN Revert("rejectApplication", e)
    ELSE
        /\ applications' = [applications EXCEPT
               ![applicant].isProcessed = TRUE,
               ![applicant].rejectionReason = reason]
        /\ harHealthAuthorities' = [harHealthAuthorities EXCEPT
               ![applicant].status = "Active"]
        /\ pendingApplicationsCount' = pendingApplicationsCount - 1
        /\ pendingApplications' =
               _removePendingApplication(pendingApplications, applicant)
        /\ Done("rejectApplication", caller, FALSE)
        /\ UNCHANGED <<nameToAddress, authoritiesByType,
                       authoritiesByCountry, allAuthorities,
                       harTotalAuthorities, activeAuthorities, harPaused,
                       zkVars, svcVars, now>>

rejectApplication(caller, applicant, reason) ==
    LET e == rejectApplicationErr(caller, applicant) IN
    IF e # "none" THEN Revert("rejectApplication", e)
    ELSE
        /\ applications' = [applications EXCEPT
               ![applicant].isProcessed = TRUE,
               ![applicant].rejectionReason = reason]
        /\ pendingApplicationsCount' = pendingApplicationsCount - 1
        /\ pendingApplications' =
               _removePendingApplication(pendingApplications, applicant)
        /\ Done("rejectApplication", caller, FALSE)
        /\ UNCHANGED <<harHealthAuthorities, nameToAddress, authoritiesByType,
                       authoritiesByCountry, allAuthorities,
                       harTotalAuthorities, activeAuthorities, harPaused,
                       zkVars, svcVars, now>>

\* mutant: a Revoked authority is refused any further status change
updateAuthorityStatusErrRevokedTerminal(caller, authority, newStatus) ==
    IF ~harHasRole("REGISTRAR_ROLE", caller) THEN "AccessControlUnauthorizedAccount"
    ELSE IF harPaused THEN "EnforcedPause"
    ELSE IF harHealthAuthorities[authority].registeredAt = 0 THEN "InvalidAuthority"
    ELSE IF harHealthAuthorities[authority].status = "Revoked" THEN "InvalidAuthority"
    ELSE IF /\ harHealthAuthorities[authority].status = "Active"
            /\ newStatus # "Active"
            /\ activeAuthorities = 0 THEN "Panic"
    ELSE "none"

\* mutant: the existence check is missing
updateAuthorityStatusErrNoExists(caller, authority, newStatus) ==
    IF ~harHasRole("REGISTRAR_ROLE", caller) THEN "AccessControlUnauthorizedAccount"
    ELSE IF harPaused THEN "EnforcedPause"
    ELSE IF /\ harHealthAuthorities[authority].status = "Active"
            /\ newStatus # "Active"
            /\ activeAuthorities = 0 THEN "Panic"
    ELSE "none"

updateAuthorityStatusErr(caller, authority, newStatus) ==
    IF ~harHasRole("REGISTRAR_ROLE", caller) THEN "AccessControlUnauthorizedAccount"
    ELSE IF harPaused THEN "EnforcedPause"
    ELSE IF harHealthAuthorities[authority].registeredAt = 0 THEN "InvalidAuthority"
    ELSE IF /\ harHealthAuthorities[authority].status = "Active"
            /\ newStatus # "Active"
            /\ activeAuthorities = 0 THEN "Panic"
    ELSE "none"

\* mutant: the counter is adjusted by the target status alone
updateAuthorityStatusCountsTarget(caller, authority, newStatus) ==
    LET e == updateAuthorityStatusErr(caller, authority, newStatus) IN
    IF e # "none" THEN Revert("updateAuthorityStatus", e)
    ELSE
        /\ harHealthAuthorities' = [harHealthAuthorities EXCEPT
               ![authority].status = newStatus,
               ![authority].lastUpdated = now]
        /\ activeAuthorities' =
               IF newStatus = "Active" THEN activeAuthorities + 1
               ELSE IF activeAuthorities > 0 THEN activeAuthorities - 1
               ELSE activeAuthorities
        /\ Done("updateAuthorityStatus", caller, FALSE)
        /\ UNCHANGED <<applications, nameToAddress, authoritiesByType,
                       authoritiesByCountry, allAuthorities,
                       pendingApplications, harTotalAuthorities,
                       pendingApplicationsCount, harPaused, zkVars, svcVars, now>>

updateAuthorityStatus(caller, authority, newStatus) ==
    LET e == updateAuthorityStatusErr(caller, authority, newStatus)
        oldStatus == harHealthAuthorities[authority].status IN
    IF e # "none" THEN Revert("updateAuthorityStatus", e)
    ELSE
        /\ harHealthAuthorities' = [harHealthAuthorities EXCEPT
               ![authority].status = newStatus,
               ![authority].lastUpdated = now]
        /\ activeAuthorities' =
               IF oldStatus = "Active" /\ newStatus # "Active"
               THEN activeAuthorities - 1
               ELSE IF oldStatus # "Active" /\ newStatus = "Active"
               THEN activeAuthorities + 1
               ELSE activeAuthorities
        /\ Done("updateAuthorityStatus", caller, FALSE)
        /\ UNCHANGED <<applications, nameToAddress, authoritiesByType,
                       authoritiesByCountry, allAuthorities,
                       pendingApplications, harTotalAuthorities,
                       pendingApplicationsCount, harPaused, zkVars, svcVars, now>>

\* mutant: the caller check is missing
updateAuthorityInfoErrNoCaller(caller, authority) ==
    IF harPaused THEN "EnforcedPause"
    ELSE IF harHealthAuthorities[authority].registeredAt = 0 THEN "InvalidAuthority"
    ELSE "none"

updateAuthorityInfoErr(caller, authority) ==
    IF harPaused THEN "EnforcedPause"
    ELSE IF caller # authority /\ ~harHasRole("ADMIN_ROLE", caller)
         THEN "UnauthorizedAccess"
    ELSE IF harHealthAuthorities[authority].registeredAt = 0 THEN "InvalidAuthority"
    ELSE "none"

updateAuthorityInfo(caller, authority, contactInfo, certificateHash) ==
    LET e == updateAuthorityInfoErr(caller, authority) IN
    IF e # "none" THEN Revert("updateAuthorityInfo", e)
    ELSE
        /\ harHealthAuthorities' = [harHealthAuthorities EXCEPT
               ![authority].contactInfo = contactInfo,
               ![authority].certificateHash = certificateHash,
               ![authority].lastUpdated = now]
        /\ Done("updateAuthorityInfo", caller, FALSE)
        /\ UNCHANGED <<applications, nameToAddress, authoritiesByType,
                       authoritiesByCountry, allAuthorities,
                       pendingApplications, harTotalAuthorities,
                       activeAuthorities, pendingApplicationsCount,
                       harPaused, zkVars, svcVars, now>>

\* no role check and no pause check in the source
recordHealthRecordIssuedErr(authority) ==
    IF harHealthAuthorities[authority].registeredAt = 0
    THEN "InvalidAuthority" ELSE "none"

recordHealthRecordIssued(caller, authority) ==
    LET e == recordHealthRecordIssuedErr(authority) IN
    IF e # "none" THEN Revert("recordHealthRecordIssued", e)
    ELSE
        /\ harHealthAuthorities[authority].totalRecordsIssued < MaxRecords
        /\ harHealthAuthorities' = [harHealthAuthorities EXCEPT
               ![authority].totalRecordsIssued = @ + 1]
        /\ Done("recordHealthRecordIssued", caller, FALSE)
        /\ UNCHANGED <<applications, nameToAddress, authoritiesByType,
                       authoritiesByCountry, allAuthorities,
                       pendingApplications, harTotalAuthorities,
                       activeAuthorities, pendingApplicationsCount,
                       harPaused, zkVars, svcVars, now>>

recordHealthRecordRevokedErr(authority) ==
    IF harHealthAuthorities[authority].registeredAt = 0
    THEN "InvalidAuthority" ELSE "none"

recordHealthRecordRevoked(caller, authority) ==
    LET e == recordHealthRecordRevokedErr(authority) IN
    IF e # "none" THEN Revert("recordHealthRecordRevoked", e)
    ELSE
        /\ harHealthAuthorities[authority].totalRecordsRevoked < MaxRecords
        /\ harHealthAuthorities' = [harHealthAuthorities EXCEPT
               ![authority].totalRecordsRevoked = @ + 1]
        /\ Done("recordHealthRecordRevoked", caller, FALSE)
        /\ UNCHANGED <<applications, nameToAddress, authoritiesByType,
                       authoritiesByCountry, allAuthorities,
                       pendingApplications, harTotalAuthorities,
                       activeAuthorities, pendingApplicationsCount,
                       harPaused, zkVars, svcVars, now>>

\* PausableUpgradeable: _pause requires not paused, _unpause requires paused
harPauseErr(caller) ==
    IF ~harHasRole("ADMIN_ROLE", caller) THEN "AccessControlUnauthorizedAccount"
    ELSE IF harPaused THEN "EnforcedPause"
    ELSE "none"

harPause(caller) ==
    LET e == harPauseErr(caller) IN
    IF e # "none" THEN Revert("harPause", e)
    ELSE
        /\ harPaused' = TRUE
        /\ Done("harPause", caller, FALSE)
        /\ UNCHANGED <<harHealthAuthorities, applications, nameToAddress,
                       authoritiesByType, authoritiesByCountry, allAuthorities,
                       pendingApplications, harTotalAuthorities,
                       activeAuthorities, pendingApplicationsCount,
                       zkVars, svcVars, now>>

harUnpauseErr(caller) ==
    IF ~harHasRole("ADMIN_ROLE", caller) THEN "AccessControlUnauthorizedAccount"
    ELSE IF ~harPaused THEN "ExpectedPause"
    ELSE "none"

harUnpause(caller) ==
    LET e == harUnpauseErr(caller) IN
    IF e # "none" THEN Revert("harUnpause", e)
    ELSE
        /\ harPaused' = FALSE
        /\ Done("harUnpause", caller, FALSE)
        /\ UNCHANGED <<harHealthAuthorities, applications, nameToAddress,
                       authoritiesByType, authoritiesByCountry, allAuthorities,
                       pendingApplications, harTotalAuthorities,
                       activeAuthorities, pendingApplicationsCount,
                       zkVars, svcVars, now>>

(***************************************************************************)
(* ZKHealthPassRegistry                                                    *)
(***************************************************************************)
registerHealthAuthorityErr(caller, authorityAddress) ==
    IF ~zkHasRole("AUTHORITY_MANAGER_ROLE", caller)
    THEN "AccessControlUnauthorizedAccount"
    ELSE IF zkPaused THEN "EnforcedPause"
    ELSE IF zkHealthAuthorities[authorityAddress].registeredAt # 0
    THEN "AuthorityAlreadyExists"
    ELSE "none"

registerHealthAuthority(caller, authorityAddress) ==
    LET e == registerHealthAuthorityErr(caller, authorityAddress) IN
    IF e # "none" THEN Revert("registerHealthAuthority", e)
    ELSE
        /\ zkHealthAuthorities' = [zkHealthAuthorities EXCEPT
               ![authorityAddress].isActive = TRUE,
               ![authorityAddress].registeredAt = now]
        /\ authorityAddresses' = Append(authorityAddresses, authorityAddress)
        /\ zkTotalAuthorities' = zkTotalAuthorities + 1
        /\ Done("registerHealthAuthority", caller, FALSE)
        /\ UNCHANGED <<zkProofs, verificationHistory, proofHashes,
                       totalProofs, totalVerifications, zkPaused,
                       harVars, svcVars, now>>

updateHealthAuthorityStatusErr(caller, authorityAddress) ==
    IF ~zkHasRole("AUTHORITY_MANAGER_ROLE", caller)
    THEN "AccessControlUnauthorizedAccount"
    ELSE IF zkPaused THEN "EnforcedPause"
    ELSE IF zkHealthAuthorities[authorityAddress].registeredAt = 0
    THEN "InvalidAuthority"
    ELSE "none"

\* mutant: setting the status also clears the revoked record hashes
updateHealthAuthorityStatusClearsFlags(caller, authorityAddress, isActive) ==
    LET e == updateHealthAuthorityStatusErr(caller, authorityAddress) IN
    IF e # "none" THEN Revert("updateHealthAuthorityStatus", e)
    ELSE
        /\ zkHealthAuthorities' = [zkHealthAuthorities EXCEPT
               ![authorityAddress].isActive = isActive,
               ![authorityAddress].revokedRecords = {}]
        /\ Done("updateHealthAuthorityStatus", caller, FALSE)
        /\ UNCHANGED <<zkProofs, verificationHistory, authorityAddresses,
                       proofHashes, zkTotalAuthorities, totalProofs,
                       totalVerifications, zkPaused, harVars, svcVars, now>>

updateHealthAuthorityStatus(caller, authorityAddress, isActive) ==
    LET e == updateHealthAuthorityStatusErr(caller, authorityAddress) IN
    IF e # "none" THEN Revert("updateHealthAuthorityStatus", e)
    ELSE
        /\ zkHealthAuthorities' = [zkHealthAuthorities EXCEPT
               ![authorityAddress].isActive = isActive]
        /\ Done("updateHealthAuthorityStatus", caller, FALSE)
        /\ UNCHANGED <<zkProofs, verificationHistory, authorityAddresses,
                       proofHashes, zkTotalAuthorities, totalProofs,
                       totalVerifications, zkPaused, harVars, svcVars, now>>

\* mutant: the ProofAlreadyExists check is missing
submitZKProofErrNoExists(proofHash, healthRecordHash, authority) ==
    IF zkPaused THEN "EnforcedPause"
    ELSE IF ~zkHealthAuthorities[authority].isActive THEN "InvalidAuthority"
    ELSE IF proofHash = 0 \/ healthRecordHash = 0 THEN "InvalidProof"
    ELSE "none"

\* mutant: the zero-hash check is missing
submitZKProofErrNoZero(proofHash, healthRecordHash, authority) ==
    IF zkPaused THEN "EnforcedPause"
    ELSE IF zkProofs[proofHash].generatedAt # 0 THEN "ProofAlreadyExists"
    ELSE IF ~zkHealthAuthorities[authority].isActive THEN "InvalidAuthority"
    ELSE "none"

submitZKProofErr(proofHash, healthRecordHash, authority) ==
    IF zkPaused THEN "EnforcedPause"
    ELSE IF zkProofs[proofHash].generatedAt # 0 THEN "ProofAlreadyExists"
    ELSE IF ~zkHealthAuthorities[authority].isActive THEN "InvalidAuthority"
    ELSE IF proofHash = 0 \/ healthRecordHash = 0 THEN "InvalidProof"
    ELSE "none"

\* mutant: the proof is counted before the authority check, and a failed
\* authority check returns instead of reverting
submitZKProofCountsFirst(caller, proofHash, healthRecordHash, authority, expiresAt) ==
    LET e == submitZKProofErr(proofHash, healthRecordHash, authority) IN
    IF e = "InvalidAuthority"
    THEN /\ totalProofs' = totalProofs + 1
         /\ Done("submitZKProof", caller, FALSE)
         /\ UNCHANGED <<zkHealthAuthorities, zkProofs, verificationHistory,
                        authorityAddresses, proofHashes, zkTotalAuthorities,
                        totalVerifications, zkPaused, harVars, svcVars, now>>
    ELSE IF e # "none" THEN Revert("submitZKProof", e)
    ELSE
        /\ zkProofs' = [zkProofs EXCEPT ![proofHash] =
               [proofHash |-> proofHash,
                healthRecordHash |-> healthRecordHash,
                authority |-> authority,
                generatedAt |-> now,
                expiresAt |-> expiresAt,
                isRevoked |-> FALSE,
                verificationCount |-> 0]]
        /\ proofHashes' = Append(proofHashes, proofHash)
        /\ totalProofs' = totalProofs + 1
        /\ zkHealthAuthorities' = [zkHealthAuthorities EXCEPT
               ![authority].totalRecordsIssued = @ + 1]
        /\ Done("submitZKProof", caller, FALSE)
        /\ UNCHANGED <<verificationHistory, authorityAddresses,
                       zkTotalAuthorities, totalVerifications, zkPaused,
                       harVars, svcVars, now>>

submitZKProof(caller, proofHash, healthRecordHash, authority, expiresAt) ==
    LET e == submitZKProofErr(proofHash, healthRecordHash, authority) IN
    IF e # "none" THEN Revert("submitZKProof", e)
    ELSE
        /\ zkProofs' = [zkProofs EXCEPT ![proofHash] =
               [proofHash |-> proofHash,
                healthRecordHash |-> healthRecordHash,
                authority |-> authority,
                generatedAt |-> now,
                expiresAt |-> expiresAt,
                isRevoked |-> FALSE,
                verificationCount |-> 0]]
        /\ proofHashes' = Append(proofHashes, proofHash)
        /\ totalProofs' = totalProofs + 1
        /\ zkHealthAuthorities' = [zkHealthAuthorities EXCEPT
               ![authority].totalRecordsIssued = @ + 1]
        /\ Done("submitZKProof", caller, FALSE)
        /\ UNCHANGED <<verificationHistory, authorityAddresses,
                       zkTotalAuthorities, totalVerifications, zkPaused,
                       harVars, svcVars, now>>

\* mutant: expiresAt = 0 is not exempted from the expiry test
verifyZKProofIsValidZeroExpires(proofHash) ==
    LET proof == zkProofs[proofHash] IN
    IF proof.generatedAt = 0 THEN FALSE
    ELSE IF proof.isRevoked THEN FALSE
    ELSE IF now > proof.expiresAt THEN FALSE
    ELSE IF ~zkHealthAuthorities[proof.authority].isActive THEN FALSE
    ELSE IF proof.healthRecordHash
              \in zkHealthAuthorities[proof.authority].revokedRecords THEN FALSE
    ELSE TRUE

\* mutant: a proof counts as expired already at now = expiresAt
verifyZKProofIsValidExclusive(proofHash) ==
    LET proof == zkProofs[proofHash] IN
    IF proof.generatedAt = 0 THEN FALSE
    ELSE IF proof.isRevoked THEN FALSE
    ELSE IF proof.expiresAt > 0 /\ now >= proof.expiresAt THEN FALSE
    ELSE IF ~zkHealthAuthorities[proof.authority].isActive THEN FALSE
    ELSE IF proof.healthRecordHash
              \in zkHealthAuthorities[proof.authority].revokedRecords THEN FALSE
    ELSE TRUE

\* the if / else-if chain of verifyZKProof
verifyZKProofIsValid(proofHash) ==
    LET proof == zkProofs[proofHash] IN
    IF proof.generatedAt = 0 THEN FALSE
    ELSE IF proof.isRevoked THEN FALSE
    ELSE IF proof.expiresAt > 0 /\ now > proof.expiresAt THEN FALSE
    ELSE IF ~zkHealthAuthorities[proof.authority].isActive THEN FALSE
    ELSE IF proof.healthRecordHash
              \in zkHealthAuthorities[proof.authority].revokedRecords THEN FALSE
    ELSE TRUE

verifyZKProofErr == IF zkPaused THEN "EnforcedPause" ELSE "none"

\* mutant: an invalid verification is not logged
verifyZKProofSkipsInvalid(caller, proofHash, context) ==
    IF verifyZKProofErr # "none" THEN Revert("verifyZKProof", verifyZKProofErr)
    ELSE
        LET isValid == verifyZKProofIsValid(proofHash) IN
        /\ totalVerifications < MaxVerifications
        /\ zkProofs' = IF isValid
                       THEN [zkProofs EXCEPT ![proofHash].verificationCount = @ + 1]
                       ELSE zkProofs
        /\ verificationHistory' =
               IF isValid
               THEN [verificationHistory EXCEPT ![proofHash] =
                       Append(@, [proofHash |-> proofHash, verifier |-> caller,
                                  isValid |-> isValid, timestamp |-> now,
                                  context |-> context])]
               ELSE verificationHistory
        /\ totalVerifications' = totalVerifications + 1
        /\ Done("verifyZKProof", caller, isValid)
        /\ UNCHANGED <<zkHealthAuthorities, authorityAddresses, proofHashes,
                       zkTotalAuthorities, totalProofs, zkPaused,
                       harVars, svcVars, now>>

\* mutant: verificationCount is incremented on every verification of a
\* stored proof, valid or not
verifyZKProofCountsAll(caller, proofHash, context) ==
    IF verifyZKProofErr # "none" THEN Revert("verifyZKProof", verifyZKProofErr)
    ELSE
        LET isValid == verifyZKProofIsValid(proofHash) IN
        /\ totalVerifications < MaxVerifications
        /\ zkProofs' = IF zkProofs[proofHash].generatedAt # 0
                       THEN [zkProofs EXCEPT ![proofHash].verificationCount = @ + 1]
                       ELSE zkProofs
        /\ verificationHistory' = [verificationHistory EXCEPT ![proofHash] =
               Append(@, [proofHash |-> proofHash, verifier |-> caller,
                          isValid |-> isValid, timestamp |-> now,
                          context |-> context])]
        /\ totalVerifications' = totalVerifications + 1
        /\ Done("verifyZKProof", caller, isValid)
        /\ UNCHANGED <<zkHealthAuthorities, authorityAddresses, proofHashes,
                       zkTotalAuthorities, totalProofs, zkPaused,
                       harVars, svcVars, now>>

\* mutant: verificationCount is never incremented
verifyZKProofNeverCounts(caller, proofHash, context) ==
    IF verifyZKProofErr # "none" THEN Revert("verifyZKProof", verifyZKProofErr)
    ELSE
        LET isValid == verifyZKProofIsValid(proofHash) IN
        /\ totalVerifications < MaxVerifications
        /\ verificationHistory' = [verificationHistory EXCEPT ![proofHash] =
               Append(@, [proofHash |-> proofHash, verifier |-> caller,
                          isValid |-> isValid, timestamp |-> now,
                          context |-> context])]
        /\ totalVerifications' = totalVerifications + 1
        /\ Done("verifyZKProof", caller, isValid)
        /\ UNCHANGED <<zkProofs, zkHealthAuthorities, authorityAddresses,
                       proofHashes, zkTotalAuthorities, totalProofs, zkPaused,
                       harVars, svcVars, now>>

\* mutant: verifying an unknown hash leaves a record behind
verifyZKProofReservesHash(caller, proofHash, context) ==
    IF verifyZKProofErr # "none" THEN Revert("verifyZKProof", verifyZKProofErr)
    ELSE
        LET isValid == verifyZKProofIsValid(proofHash) IN
        /\ totalVerifications < MaxVerifications
        /\ zkProofs' = IF isValid
                       THEN [zkProofs EXCEPT ![proofHash].verificationCount = @ + 1]
                       ELSE IF zkProofs[proofHash].generatedAt = 0
                       THEN [zkProofs EXCEPT ![proofHash].generatedAt = now]
                       ELSE zkProofs
        /\ verificationHistory' = [verificationHistory EXCEPT ![proofHash] =
               Append(@, [proofHash |-> proofHash, verifier |-> caller,
                          isValid |-> isValid, timestamp |-> now,
                          context |-> context])]
        /\ totalVerifications' = totalVerifications + 1
        /\ Done("verifyZKProof", caller, isValid)
        /\ UNCHANGED <<zkHealthAuthorities, authorityAddresses, proofHashes,
                       zkTotalAuthorities, totalProofs, zkPaused,
                       harVars, svcVars, now>>

verifyZKProof(caller, proofHash, context) ==
    IF verifyZKProofErr # "none" THEN Revert("verifyZKProof", verifyZKProofErr)
    ELSE
        LET isValid == verifyZKProofIsValid(proofHash) IN
        /\ totalVerifications < MaxVerifications
        /\ zkProofs' = IF isValid
                       THEN [zkProofs EXCEPT ![proofHash].verificationCount = @ + 1]
                       ELSE zkProofs
        /\ verificationHistory' = [verificationHistory EXCEPT ![proofHash] =
               Append(@, [proofHash |-> proofHash, verifier |-> caller,
                          isValid |-> isValid, timestamp |-> now,
                          context |-> context])]
        /\ totalVerifications' = totalVerifications + 1
        /\ Done("verifyZKProof", caller, isValid)
        /\ UNCHANGED <<zkHealthAuthorities, authorityAddresses, proofHashes,
                       zkTotalAuthorities, totalProofs, zkPaused,
                       harVars, svcVars, now>>

\* mutant: the caller is checked before the proof's existence
revokeZKProofErrCallerFirst(caller, proofHash) ==
    IF zkPaused THEN "EnforcedPause"
    ELSE IF caller # zkProofs[proofHash].authority /\ ~zkHasRole("ADMIN_ROLE", caller)
    THEN "UnauthorizedAccess"
    ELSE IF zkProofs[proofHash].generatedAt = 0 THEN "InvalidProof"
    ELSE "none"

\* mutant: a proof that is already revoked is refused
revokeZKProofErrAlreadyRevoked(caller, proofHash) ==
    IF zkPaused THEN "EnforcedPause"
    ELSE IF zkProofs[proofHash].generatedAt = 0 THEN "InvalidProof"
    ELSE IF caller # zkProofs[proofHash].authority /\ ~zkHasRole("ADMIN_ROLE", caller)
    THEN "UnauthorizedAccess"
    ELSE IF zkProofs[proofHash].isRevoked THEN "InvalidProof"
    ELSE "none"

\* mutant: the caller check is missing
revokeZKProofErrNoCaller(caller, proofHash) ==
    IF zkPaused THEN "EnforcedPause"
    ELSE IF zkProofs[proofHash].generatedAt = 0 THEN "InvalidProof"
    ELSE "none"

revokeZKProofErr(caller, proofHash) ==
    IF zkPaused THEN "EnforcedPause"
    ELSE IF zkProofs[proofHash].generatedAt = 0 THEN "InvalidProof"
    ELSE IF caller # zkProofs[proofHash].authority /\ ~zkHasRole("ADMIN_ROLE", caller)
    THEN "UnauthorizedAccess"
    ELSE "none"

\* mutant: revoking also ends the proof's validity period at once
revokeZKProofClearsExpiry(caller, proofHash) ==
    LET e == revokeZKProofErr(caller, proofHash) IN
    IF e # "none" THEN Revert("revokeZKProof", e)
    ELSE
        /\ zkProofs' = [zkProofs EXCEPT ![proofHash].isRevoked = TRUE,
                                         ![proofHash].expiresAt = now]
        /\ Done("revokeZKProof", caller, FALSE)
        /\ UNCHANGED <<zkHealthAuthorities, verificationHistory,
                       authorityAddresses, proofHashes, zkTotalAuthorities,
                       totalProofs, totalVerifications, zkPaused,
                       harVars, svcVars, now>>

revokeZKProof(caller, proofHash) ==
    LET e == revokeZKProofErr(caller, proofHash) IN
    IF e # "none" THEN Revert("revokeZKProof", e)
    ELSE
        /\ zkProofs' = [zkProofs EXCEPT ![proofHash].isRevoked = TRUE]
        /\ Done("revokeZKProof", caller, FALSE)
        /\ UNCHANGED <<zkHealthAuthorities, verificationHistory,
                       authorityAddresses, proofHashes, zkTotalAuthorities,
                       totalProofs, totalVerifications, zkPaused,
                       harVars, svcVars, now>>

\* mutant: registration is tested in place of the isActive flag
revokeHealthRecordErrRegistered(caller) ==
    IF zkPaused THEN "EnforcedPause"
    ELSE IF zkHealthAuthorities[caller].registeredAt = 0 /\ ~zkHasRole("ADMIN_ROLE", caller)
    THEN "UnauthorizedAccess"
    ELSE "none"

revokeHealthRecordErr(caller) ==
    IF zkPaused THEN "EnforcedPause"
    ELSE IF ~zkHealthAuthorities[caller].isActive /\ ~zkHasRole("ADMIN_ROLE", caller)
    THEN "UnauthorizedAccess"
    ELSE "none"

\* mutant: the record hash is flagged in every authority's namespace
revokeHealthRecordGlobal(caller, recordHash) ==
    LET e == revokeHealthRecordErr(caller) IN
    IF e # "none" THEN Revert("revokeHealthRecord", e)
    ELSE
        /\ zkHealthAuthorities' = [a \in Identities |->
               [zkHealthAuthorities[a] EXCEPT !.revokedRecords = @ \cup {recordHash}]]
        /\ Done("revokeHealthRecord", caller, FALSE)
        /\ UNCHANGED <<zkProofs, verificationHistory, authorityAddresses,
                       proofHashes, zkTotalAuthorities, totalProofs,
                       totalVerifications, zkPaused, harVars, svcVars, now>>

\* mutant: an admin's call flags the record hash for every authority
revokeHealthRecordAdminGlobal(caller, recordHash) ==
    LET e == revokeHealthRecordErr(caller) IN
    IF e # "none" THEN Revert("revokeHealthRecord", e)
    ELSE
        /\ zkHealthAuthorities' =
               IF zkHasRole("ADMIN_ROLE", caller)
               THEN [a \in Identities |->
                       [zkHealthAuthorities[a] EXCEPT !.revokedRecords = @ \cup {recordHash}]]
               ELSE [zkHealthAuthorities EXCEPT
                       ![caller].revokedRecords = @ \cup {recordHash}]
        /\ Done("revokeHealthRecord", caller, FALSE)
        /\ UNCHANGED <<zkProofs, verificationHistory, authorityAddresses,
                       proofHashes, zkTotalAuthorities, totalProofs,
                       totalVerifications, zkPaused, harVars, svcVars, now>>

revokeHealthRecord(caller, recordHash) ==
    LET e == revokeHealthRecordErr(caller) IN
    IF e # "none" THEN Revert("revokeHealthRecord", e)
    ELSE
        /\ zkHealthAuthorities' = [zkHealthAuthorities EXCEPT
               ![caller].revokedRecords = @ \cup {recordHash}]
        /\ Done("revokeHealthRecord", caller, FALSE)
        /\ UNCHANGED <<zkProofs, verificationHistory, authorityAddresses,
                       proofHashes, zkTotalAuthorities, totalProofs,
                       totalVerifications, zkPaused, harVars, svcVars, now>>

\* view: the three counters of ZKHealthPassRegistry
getSystemStats ==
    [_totalAuthorities |-> zkTotalAuthorities,
     _totalProofs |-> totalProofs,
     _totalVerifications |-> totalVerifications]

zkPauseErr(caller) ==
    IF ~zkHasRole("ADMIN_ROLE", caller) THEN "AccessControlUnauthorizedAccount"
    ELSE IF zkPaused THEN "EnforcedPause"
    ELSE "none"

zkPause(caller) ==
    LET e == zkPauseErr(caller) IN
    IF e # "none" THEN Revert("zkPause", e)
    ELSE
        /\ zkPaused' = TRUE
        /\ Done("zkPause", caller, FALSE)
        /\ UNCHANGED <<zkHealthAuthorities, zkProofs, verificationHistory,
                       authorityAddresses, proofHashes, zkTotalAuthorities,
                       totalProofs, totalVerifications, harVars, svcVars, now>>

zkUnpauseErr(caller) ==
    IF ~zkHasRole("ADMIN_ROLE", caller) THEN "AccessControlUnauthorizedAccount"
    ELSE IF ~zkPaused THEN "ExpectedPause"
    ELSE "none"

zkUnpause(caller) ==
    LET e == zkUnpauseErr(caller) IN
    IF e # "none" THEN Revert("zkUnpause", e)
    ELSE
        /\ zkPaused' = FALSE
        /\ Done("zkUnpause", caller, FALSE)
        /\ UNCHANGED <<zkHealthAuthorities, zkProofs, verificationHistory,
                       authorityAddresses, proofHashes, zkTotalAuthorities,
                       totalProofs, totalVerifications, harVars, svcVars, now>>

(***************************************************************************)
(* Environment: block.timestamp advances between transactions              *)
(***************************************************************************)
Tick ==
    /\ now < MaxTime
    /\ now' = now + 1
    /\ UNCHANGED <<harVars, zkVars, svcVars, last>>

(***************************************************************************)
(* Steps: an external call with its inputs drawn from the given sets       *)
(***************************************************************************)
SubmitApplicationStep(callers, names) ==
    \E caller \in callers, name \in names, t \in AuthorityType,
       c \in Countries, k \in KeyLengths, h \in CertificateHashes,
       i \in ContactInfos :
        submitApplication(caller, name, t, c, k, h, i)

ApproveApplicationStep(callers, applicants) ==
    \E caller \in callers, applicant \in applicants :
        approveApplication(caller, applicant)

RejectApplicationStep(callers, applicants) ==
    \E caller \in callers, applicant \in applicants, r \in Reasons :
        rejectApplication(caller, applicant, r)

UpdateAuthorityStatusStep(callers, authorities, statuses) ==
    \E caller \in callers, a \in authorities, s \in statuses :
        updateAuthorityStatus(caller, a, s)

UpdateAuthorityInfoStep(callers, authorities) ==
    \E caller \in callers, a \in authorities, i \in ContactInfos,
       h \in CertificateHashes :
        updateAuthorityInfo(caller, a, i, h)

RecordIssuedStep(callers, authorities) ==
    \E caller \in callers, a \in authorities :
        recordHealthRecordIssued(caller, a)

RecordRevokedStep(callers, authorities) ==
    \E caller \in callers, a \in authorities :
        recordHealthRecordRevoked(caller, a)

HarPauseStep(callers) == \E caller \in callers : harPause(caller)

HarUnpauseStep(callers) == \E caller \in callers : harUnpause(caller)

RegisterHealthAuthorityStep(callers, authorities) ==
    \E caller \in callers, a \in authorities :
        registerHealthAuthority(caller, a)

UpdateHealthAuthorityStatusStep(callers, authorities) ==
    \E caller \in callers, a \in authorities, b \in BOOLEAN :
        updateHealthAuthorityStatus(caller, a, b)

SubmitZKProofStep(callers, authorities, expiries) ==
    \E caller \in callers, p \in ProofHashes, h \in RecordHashes,
       a \in authorities, x \in expiries :
        submitZKProof(caller, p, h, a, x)

VerifyZKProofStep(callers, hashes) ==
    \E caller \in callers, p \in hashes, c \in Contexts :
        verifyZKProof(caller, p, c)

RevokeZKProofStep(callers) ==
    \E caller \in callers, p \in ProofHashes :
        revokeZKProof(caller, p)

RevokeHealthRecordStep(callers, hashes) ==
    \E caller \in callers, h \in hashes :
        revokeHealthRecord(caller, h)

ZkPauseStep(callers) == \E caller \in callers : zkPause(caller)

ZkUnpauseStep(callers) == \E caller \in callers : zkUnpause(caller)

(***************************************************************************)
(* Spec: both registries side by side, with one                            *)
(* applicant / authority (alice), the admin, and bob who holds no role and *)
(* no record.                                                              *)
(***************************************************************************)
Next ==
    \/ SubmitApplicationStep({"alice"}, {"City Hospital"})
    \/ ApproveApplicationStep({Admin, "bob"}, {"alice"})
    \/ RejectApplicationStep({Admin, "bob"}, {"alice"})
    \/ UpdateAuthorityStatusStep({Admin, "bob"}, {"alice"}, {"Active", "Suspended"})
    \/ UpdateAuthorityInfoStep({"alice", "bob"}, {"alice"})
    \/ RecordIssuedStep({"bob"}, {"alice"})
    \/ RecordRevokedStep({"bob"}, {"alice"})
    \/ HarPauseStep({Admin, "bob"})
    \/ HarUnpauseStep({Admin, "bob"})
    \/ RegisterHealthAuthorityStep({Admin, "bob"}, {"alice"})
    \/ UpdateHealthAuthorityStatusStep({Admin, "bob"}, {"alice"})
    \/ SubmitZKProofStep({"bob"}, {"alice"}, {MaxTime})
    \/ VerifyZKProofStep({"bob"}, ProofHashes \ {0})
    \/ RevokeZKProofStep({"alice", "bob"})
    \/ RevokeHealthRecordStep({"alice", "bob"}, RecordHashes \ {0})
    \/ ZkPauseStep({Admin, "bob"})
    \/ ZkUnpauseStep({Admin, "bob"})
    \/ Tick

Spec == Init /\ [][Next]_vars

(***************************************************************************)
(* The two contracts never call each other, so each can also be run alone  *)
(* with wider inputs and with time advancing.                              *)
(***************************************************************************)
NextAuthority ==
    \/ SubmitApplicationStep({"alice", "bob"}, Names)
    \/ ApproveApplicationStep({Admin, "bob"}, {"alice", "bob"})
    \/ RejectApplicationStep({Admin, "bob"}, {"alice", "bob"})
    \/ UpdateAuthorityStatusStep({Admin, "bob"}, {"alice", "bob"}, AuthorityStatus)
    \/ HarPauseStep({Admin, "bob"})
    \/ HarUnpauseStep({Admin, "bob"})
    \/ Tick

SpecAuthority == Init /\ [][NextAuthority]_vars

NextProof ==
    \/ RegisterHealthAuthorityStep({Admin, "bob"}, {"alice"})
    \/ UpdateHealthAuthorityStatusStep({Admin, "bob"}, {"alice"})
    \/ SubmitZKProofStep({"bob"}, {"alice", "bob"}, ExpiryTimes)
    \/ VerifyZKProofStep({"bob"}, ProofHashes)
    \/ RevokeZKProofStep(Identities)
    \/ RevokeHealthRecordStep(Identities, RecordHashes \ {0})
    \/ ZkPauseStep({Admin, "bob"})
    \/ ZkUnpauseStep({Admin, "bob"})
    \/ Tick

SpecProof == Init /\ [][NextProof]_vars

(***************************************************************************)
(* SpecScope: ZKHealthPassRegistry with two authorities and two usable     *)
(* proof hashes, so that both can issue a proof for one health record.     *)
(***************************************************************************)
InitScope ==
    /\ harHealthAuthorities = [a \in Identities |-> NoHarAuthority]
    /\ applications = [a \in Identities |-> NoApplication]
    /\ nameToAddress = [n \in Names |-> ZeroAddress]
    /\ authoritiesByType = [t \in AuthorityType |-> <<>>]
    /\ authoritiesByCountry = [c \in Countries |-> <<>>]
    /\ allAuthorities = <<>>
    /\ pendingApplications = <<>>
    /\ harTotalAuthorities = 0
    /\ activeAuthorities = 0
    /\ pendingApplicationsCount = 0
    /\ harPaused = FALSE
    /\ zkHealthAuthorities = [a \in Identities |-> NoZkAuthority]
    /\ zkProofs = [p \in ScopeProofHashes |-> NoProof]
    /\ verificationHistory = [p \in ScopeProofHashes |-> <<>>]
    /\ authorityAddresses = <<>>
    /\ proofHashes = <<>>
    /\ zkTotalAuthorities = 0
    /\ totalProofs = 0
    /\ totalVerifications = 0
    /\ zkPaused = FALSE
    /\ proofs = <<>>
    /\ proofOrder = <<>>
    /\ walletAddress = NoWallet
    /\ isInitialized = FALSE
    /\ now = 1
    /\ last = [op |-> "initialize", caller |-> Admin, ret |-> FALSE]

SubmitZKProofScopeStep(callers, hashes, records, authorities, expiries) ==
    \E caller \in callers, p \in hashes, h \in records,
       a \in authorities, x \in expiries :
        submitZKProof(caller, p, h, a, x)

NextScope ==
    \/ RegisterHealthAuthorityStep({Admin}, {"alice", "bob"})
    \/ SubmitZKProofScopeStep({"bob"}, ScopeProofHashes \ {0}, RecordHashes \ {0}, {"alice", "bob"}, {0})
    \/ VerifyZKProofStep({"bob"}, ScopeProofHashes \ {0})
    \/ RevokeHealthRecordStep(Identities, RecordHashes \ {0})

SpecScope == InitScope /\ [][NextScope]_vars

(***************************************************************************)
(* SpecInfo: HealthAuthorityRegistry with two applicants and updates of    *)
(* the contact data to values other than the ones applied with.            *)
(***************************************************************************)
NewContactInfos == {"c0", "c1"}

NewCertificateHashes == {"Qm0", "Qm1"}

UpdateAuthorityInfoToStep(callers, authorities, infos, hashes) ==
    \E caller \in callers, a \in authorities, i \in infos, h \in hashes :
        updateAuthorityInfo(caller, a, i, h)

NextInfo ==
    \/ SubmitApplicationStep({"alice", "bob"}, Names)
    \/ ApproveApplicationStep({Admin}, {"alice", "bob"})
    \/ UpdateAuthorityInfoToStep(Identities, {"alice", "bob"}, NewContactInfos, NewCertificateHashes)
    \/ UpdateAuthorityStatusStep({Admin}, {"alice"}, {"Suspended"})
    \/ RecordIssuedStep({"bob"}, {"alice"})
    \/ HarPauseStep({Admin})
    \/ HarUnpauseStep({Admin})
    \/ Tick

SpecInfo == Init /\ [][NextInfo]_vars

(***************************************************************************)
(* SpecPending: three applicants, approved and rejected in any order.      *)
(***************************************************************************)
NextPending ==
    \/ SubmitApplicationStep(Identities, Names)
    \/ ApproveApplicationStep({Admin}, Identities)
    \/ RejectApplicationStep({Admin}, Identities)
    \/ Tick

SpecPending == Init /\ [][NextPending]_vars

(***************************************************************************)
(* HealthPassService and WalletService (off-chain).  Date.now() is the     *)
(* clock now, read in days, so that a validity of d days ends at now + d.  *)
(***************************************************************************)
SvcRecords == {"rec1"}

SvcAuthorityNames == {"Health Authority"}

WalletAddresses == {"0xw1", "0xw2"}

DefaultValidityDays == 30

DefaultLimit == 10

\* validityDays of the request; 0 stands for a missing or zero value
ValidityDays == {-1, 0, 1}

\* sha256 digests, taken as collision-free
hashHealthRecord(record) == <<"sha256", record>>

createProofHash(recordHash, authority, timestamp) ==
    <<"sha256", recordHash, authority, timestamp>>

SvcProofHashes ==
    {createProofHash(hashHealthRecord(r), n, t) :
        r \in SvcRecords, n \in SvcAuthorityNames, t \in 1..MaxTime}

\* Map.set: a new key goes to the end, a known key keeps its place
MapSet(m, k, v) == [h \in DOMAIN m \cup {k} |-> IF h = k THEN v ELSE m[h]]

\* WalletService.initialize: loadOrCreateWallet draws a fresh mock address
walletServiceInitialize(address) ==
    /\ walletAddress' = address
    /\ isInitialized' = TRUE
    /\ Done("initialize", address, FALSE)
    /\ UNCHANGED <<proofs, proofOrder, harVars, zkVars, now>>

\* getWalletAddress throws while the wallet service is not initialized
getWalletAddressErr == IF ~isInitialized THEN "Error" ELSE "none"

createHealthProof(record, authorityName, validityDays) ==
    IF getWalletAddressErr # "none"
    THEN Revert("createHealthProof", getWalletAddressErr)
    ELSE
        LET healthRecordHash == hashHealthRecord(record)
            proofHash == createProofHash(healthRecordHash, authorityName, now)
            days == IF validityDays = 0 THEN DefaultValidityDays ELSE validityDays
            proof == [proofHash |-> proofHash,
                      healthRecordHash |-> healthRecordHash,
                      authority |-> walletAddress,
                      generatedAt |-> now,
                      expiresAt |-> now + days,
                      isRevoked |-> FALSE,
                      verificationCount |-> 0]
        IN
        /\ proofs' = MapSet(proofs, proofHash, proof)
        /\ proofOrder' = IF proofHash \in DOMAIN proofs THEN proofOrder
                         ELSE Append(proofOrder, proofHash)
        /\ Done("createHealthProof", walletAddress, FALSE)
        /\ UNCHANGED <<walletAddress, isInitialized, harVars, zkVars, now>>

\* the three early returns of verifyHealthProof
verifyHealthProofIsValid(proofHash) ==
    IF proofHash \notin DOMAIN proofs THEN FALSE
    ELSE IF proofs[proofHash].isRevoked THEN FALSE
    ELSE IF proofs[proofHash].expiresAt < now THEN FALSE
    ELSE TRUE

verifyHealthProof(proofHash) ==
    LET isValid == verifyHealthProofIsValid(proofHash) IN
    /\ isValid => proofs[proofHash].verificationCount < MaxVerifications
    /\ proofs' = IF isValid
                 THEN [proofs EXCEPT ![proofHash].verificationCount = @ + 1]
                 ELSE proofs
    /\ Done("verifyHealthProof", walletAddress, isValid)
    /\ UNCHANGED <<proofOrder, walletAddress, isInitialized, harVars, zkVars, now>>

\* mutant: the wallet is not compared with the proof's authority
revokeHealthProofMessageAnyWallet(proofHash) ==
    IF proofHash \notin DOMAIN proofs THEN "Proof not found"
    ELSE IF proofs[proofHash].isRevoked THEN "Proof is already revoked"
    ELSE IF getWalletAddressErr # "none" THEN getWalletAddressErr
    ELSE "Proof revoked successfully"

\* the message revokeHealthProof returns, "Error" when it throws
revokeHealthProofMessage(proofHash) ==
    IF proofHash \notin DOMAIN proofs THEN "Proof not found"
    ELSE IF proofs[proofHash].isRevoked THEN "Proof is already revoked"
    ELSE IF getWalletAddressErr # "none" THEN getWalletAddressErr
    ELSE IF proofs[proofHash].authority # walletAddress
    THEN "Only the issuing authority can revoke this proof"
    ELSE "Proof revoked successfully"

revokeHealthProof(proofHash) ==
    LET message == revokeHealthProofMessage(proofHash)
        success == message = "Proof revoked successfully" IN
    IF message = "Error" THEN Revert("revokeHealthProof", message)
    ELSE
        /\ proofs' = IF success
                     THEN [proofs EXCEPT ![proofHash].isRevoked = TRUE]
                     ELSE proofs
        /\ Done("revokeHealthProof", walletAddress, success)
        /\ UNCHANGED <<proofOrder, walletAddress, isInitialized, harVars, zkVars, now>>

\* Array.sort by generatedAt, newest first; the sort is stable
RECURSIVE NewestFirst(_, _)
NewestFirst(list, t) ==
    IF t = 0 THEN <<>>
    ELSE SelectSeq(list, LAMBDA p : p.generatedAt = t) \o NewestFirst(list, t - 1)

\* Array.slice(0, limit)
Slice(list, limit) ==
    LET end == IF limit >= 0
               THEN (IF limit < Len(list) THEN limit ELSE Len(list))
               ELSE (IF Len(list) + limit > 0 THEN Len(list) + limit ELSE 0)
    IN SubSeq(list, 1, end)

getHealthProofs(limit, includeExpired) ==
    LET all == [i \in 1..Len(proofOrder) |-> proofs[proofOrder[i]]]
        kept == IF ~includeExpired
                THEN SelectSeq(all, LAMBDA proof : proof.expiresAt > now /\ ~proof.isRevoked)
                ELSE all
    IN Slice(NewestFirst(kept, MaxTime), limit)

WalletServiceInitializeStep(addresses) ==
    \E address \in addresses : walletServiceInitialize(address)

CreateHealthProofStep(records, validities) ==
    \E record \in records, n \in SvcAuthorityNames, d \in validities :
        createHealthProof(record, n, d)

VerifyHealthProofStep(hashes) ==
    \E proofHash \in hashes : verifyHealthProof(proofHash)

RevokeHealthProofStep(hashes) ==
    \E proofHash \in hashes : revokeHealthProof(proofHash)

NextService ==
    \/ WalletServiceInitializeStep(WalletAddresses)
    \/ CreateHealthProofStep(SvcRecords, ValidityDays)
    \/ VerifyHealthProofStep(SvcProofHashes)
    \/ RevokeHealthProofStep(SvcProofHashes)
    \/ Tick

SpecService == Init /\ [][NextService]_vars

(***************************************************************************)
(* Properties                                                              *)
(***************************************************************************)
Last(s) == s[Len(s)]

\* the five validity conditions of the data model, as a conjunction
FiveConditions(p) ==
    /\ zkProofs[p].generatedAt # 0
    /\ ~zkProofs[p].isRevoked
    /\ (zkProofs[p].expiresAt = 0 \/ now <= zkProofs[p].expiresAt)
    /\ zkHealthAuthorities[zkProofs[p].authority].isActive
    /\ zkProofs[p].healthRecordHash
          \notin zkHealthAuthorities[zkProofs[p].authority].revokedRecords

C2_RevocationOneWay ==
    [][\A p \in ProofHashes :
          zkProofs[p].isRevoked =>
              /\ zkProofs'[p].isRevoked
              /\ Len(verificationHistory'[p]) > Len(verificationHistory[p]) =>
                    /\ ~Last(verificationHistory'[p]).isValid
                    /\ last'.ret = FALSE
      ]_vars

\* C2 witness: a revoked proof whose authority is active, that is unexpired
\* and with no record-level revocation has just been verified as invalid.
C2_Witness ==
    \E p \in ProofHashes :
        /\ zkProofs[p].isRevoked
        /\ zkHealthAuthorities[zkProofs[p].authority].isActive
        /\ zkHealthAuthorities[zkProofs[p].authority].revokedRecords = {}
        /\ now <= zkProofs[p].expiresAt
        /\ last.op = "verifyZKProof"
        /\ Len(verificationHistory[p]) > 0
        /\ ~Last(verificationHistory[p]).isValid
        /\ Last(verificationHistory[p]).timestamp = now

\* C3 as stated: for non-zero hashes, submitProof is accepted exactly when
\* the proofHash is unused and the issuing authority's status in the
\* authority registry is Active.
C3_Original ==
    \A a \in Identities, p \in ProofHashes \ {0}, h \in RecordHashes \ {0} :
        (submitZKProofErr(p, h, a) = "none") <=>
            (/\ zkProofs[p].generatedAt = 0
             /\ harHealthAuthorities[a].status = "Active")

\* C4 as stated: while the issuing authority of a stored proof has been
\* moved out of Active by the authority registry's updateStatus (after the
\* proof was submitted), every verifyProof on that proof returns false and
\* logs isValid = false.
C4_Original ==
    [][\A c \in Identities, p \in ProofHashes, x \in Contexts :
          (/\ zkProofs[p].generatedAt # 0
           /\ harHealthAuthorities[zkProofs[p].authority].registeredAt # 0
           /\ harHealthAuthorities[zkProofs[p].authority].status # "Active"
           /\ harHealthAuthorities[zkProofs[p].authority].lastUpdated
                  > zkProofs[p].generatedAt
           /\ ~zkPaused
           /\ verifyZKProof(c, p, x)) =>
              /\ last'.ret = FALSE
              /\ ~Last(verificationHistory'[p]).isValid
      ]_vars

\* no call of the proof registry has completed yet
ZkUntouched ==
    /\ zkHealthAuthorities = [a \in Identities |-> NoZkAuthority]
    /\ zkProofs = [p \in ProofHashes |-> NoProof]
    /\ verificationHistory = [p \in ProofHashes |-> <<>>]
    /\ ~zkPaused

\* C5 as stated: right after an identity's application was submitted and
\* approved in the authority registry (nothing else done), a submitProof
\* naming it with a fresh non-zero proofHash and a future expiresAt succeeds.
C5_Original ==
    \A a \in Identities :
        (/\ ZkUntouched
         /\ last.op = "approveApplication"
         /\ allAuthorities = <<a>>
         /\ harHealthAuthorities[a].status = "Active") =>
            \A p \in ProofHashes \ {0}, h \in RecordHashes \ {0},
               x \in ExpiryTimes :
                x > now => submitZKProofErr(p, h, a) = "none"

hasLiveApplication(a) ==
    applications[a].appliedAt # 0 /\ ~applications[a].isProcessed

hasAuthorityRecord(a) == harHealthAuthorities[a].registeredAt # 0

Count(list, a) == Cardinality({i \in 1..Len(list) : list[i] = a})

\* C6: every identity has at most one live application (one entry in the
\* pending list) and at most one authority record (one entry in the list of
\* all authorities), and a submitApplication by an identity that has either
\* fails and changes nothing.
C6_AtMostOne ==
    /\ [](\A a \in Identities :
            /\ Count(pendingApplications, a) = IF hasLiveApplication(a) THEN 1 ELSE 0
            /\ Count(allAuthorities, a) = IF hasAuthorityRecord(a) THEN 1 ELSE 0
            /\ (hasLiveApplication(a) \/ hasAuthorityRecord(a)) =>
                  \A n \in Names, k \in KeyLengths :
                      submitApplicationErr(a, n, k) # "none")
    /\ [][\A a \in Identities, n \in Names, t \in AuthorityType,
             c \in Countries, k \in KeyLengths, h \in CertificateHashes,
             i \in ContactInfos :
             (/\ hasLiveApplication(a) \/ hasAuthorityRecord(a)
              /\ submitApplication(a, n, t, c, k, h, i)) => UNCHANGED vars
         ]_vars

\* C6 witness: one identity has a live application while another one has an
\* authority record.
C6_Witness ==
    \E a, b \in Identities :
        /\ a # b
        /\ hasLiveApplication(a)
        /\ hasAuthorityRecord(b)
        /\ harHealthAuthorities[b].status = "Suspended"

\* C7: a successful approveApplication creates an Active authority with
\* both counters at zero and marks the application processed; a processed
\* application can be neither approved nor rejected again and never changes.
C7_ApprovalTerminal ==
    /\ [](\A a \in Identities :
            applications[a].isProcessed =>
                \A c \in Identities :
                    /\ approveApplicationErr(c, a) # "none"
                    /\ rejectApplicationErr(c, a) # "none")
    /\ [][\A a \in Identities :
            /\ (\E c \in Identities :
                   /\ approveApplicationErr(c, a) = "none"
                   /\ approveApplication(c, a)) =>
                  /\ harHealthAuthorities'[a].status = "Active"
                  /\ harHealthAuthorities'[a].registeredAt = now
                  /\ harHealthAuthorities'[a].totalRecordsIssued = 0
                  /\ harHealthAuthorities'[a].totalRecordsRevoked = 0
                  /\ applications'[a].isProcessed
            /\ applications[a].isProcessed => applications'[a] = applications[a]
         ]_vars

\* C7 witness: one application was rejected and another one has just been
\* approved.
C7_Witness ==
    \E a, b \in Identities :
        /\ last.op = "approveApplication"
        /\ Last(allAuthorities) = a
        /\ applications[a].isProcessed
        /\ applications[b].isProcessed
        /\ applications[b].rejectionReason # ""
        /\ ~hasAuthorityRecord(b)

\* number of stored proofs
StoredProofs == {p \in ProofHashes : zkProofs[p].generatedAt # 0}

\* a step that is the complete effect of one call that passed every check
CompleteCall ==
    \/ /\ last'.op = "submitApplication"
       /\ \E c \in Identities, n \in Names, t \in AuthorityType,
             co \in Countries, k \in KeyLengths, h \in CertificateHashes,
             i \in ContactInfos :
             /\ submitApplicationErr(c, n, k) = "none"
             /\ submitApplication(c, n, t, co, k, h, i)
    \/ /\ last'.op = "approveApplication"
       /\ \E c \in Identities, a \in Identities :
             approveApplicationErr(c, a) = "none" /\ approveApplication(c, a)
    \/ /\ last'.op = "rejectApplication"
       /\ \E c \in Identities, a \in Identities, r \in Reasons :
             rejectApplicationErr(c, a) = "none" /\ rejectApplication(c, a, r)
    \/ /\ last'.op = "updateAuthorityStatus"
       /\ \E c \in Identities, a \in Identities, st \in AuthorityStatus :
             /\ updateAuthorityStatusErr(c, a, st) = "none"
             /\ updateAuthorityStatus(c, a, st)
    \/ /\ last'.op = "updateAuthorityInfo"
       /\ \E c \in Identities, a \in Identities, i \in ContactInfos,
             h \in CertificateHashes :
             updateAuthorityInfoErr(c, a) = "none" /\ updateAuthorityInfo(c, a, i, h)
    \/ /\ last'.op = "recordHealthRecordIssued"
       /\ \E c \in Identities, a \in Identities :
             /\ recordHealthRecordIssuedErr(a) = "none"
             /\ recordHealthRecordIssued(c, a)
    \/ /\ last'.op = "recordHealthRecordRevoked"
       /\ \E c \in Identities, a \in Identities :
             /\ recordHealthRecordRevokedErr(a) = "none"
             /\ recordHealthRecordRevoked(c, a)
    \/ /\ last'.op = "harPause"
       /\ \E c \in Identities : harPauseErr(c) = "none" /\ harPause(c)
    \/ /\ last'.op = "harUnpause"
       /\ \E c \in Identities : harUnpauseErr(c) = "none" /\ harUnpause(c)
    \/ /\ last'.op = "registerHealthAuthority"
       /\ \E c \in Identities, a \in Identities :
             /\ registerHealthAuthorityErr(c, a) = "none"
             /\ registerHealthAuthority(c, a)
    \/ /\ last'.op = "updateHealthAuthorityStatus"
       /\ \E c \in Identities, a \in Identities, b \in BOOLEAN :
             /\ updateHealthAuthorityStatusErr(c, a) = "none"
             /\ updateHealthAuthorityStatus(c, a, b)
    \/ /\ last'.op = "submitZKProof"
       /\ \E c \in Identities, p \in ProofHashes, h \in RecordHashes,
             a \in Identities, x \in ExpiryTimes :
             submitZKProofErr(p, h, a) = "none" /\ submitZKProof(c, p, h, a, x)
    \/ /\ last'.op = "verifyZKProof"
       /\ \E c \in Identities, p \in ProofHashes, x \in Contexts :
             verifyZKProofErr = "none" /\ verifyZKProof(c, p, x)
    \/ /\ last'.op = "revokeZKProof"
       /\ \E c \in Identities, p \in ProofHashes :
             revokeZKProofErr(c, p) = "none" /\ revokeZKProof(c, p)
    \/ /\ last'.op = "revokeHealthRecord"
       /\ \E c \in Identities, h \in RecordHashes :
             revokeHealthRecordErr(c) = "none" /\ revokeHealthRecord(c, h)
    \/ /\ last'.op = "zkPause"
       /\ \E c \in Identities : zkPauseErr(c) = "none" /\ zkPause(c)
    \/ /\ last'.op = "zkUnpause"
       /\ \E c \in Identities : zkUnpauseErr(c) = "none" /\ zkUnpause(c)

\* C8: every mutating operation of both registries is all-or-nothing: a
\* call either fails a check and leaves every variable of both registries as
\* it was, or passes every check and takes its complete effect, so every
\* change of state is the complete effect of one call that passed every
\* check (or the passing of time); in particular submissions rejected for an
\* inactive authority have left totalProofs, the proof index and the
\* issuance counters equal to what the stored proofs account for.
C8_AllOrNothing ==
    /\ [](/\ totalProofs = Cardinality(StoredProofs)
          /\ Len(proofHashes) = totalProofs
          /\ \A a \in Identities :
                zkHealthAuthorities[a].totalRecordsIssued =
                    Cardinality({p \in StoredProofs : zkProofs[p].authority = a}))
    /\ [][Tick \/ CompleteCall]_vars

\* C8 witness: verifications were counted, an authority has just been made
\* inactive, and a submission naming it is rejected with InvalidAuthority.
C8_Witness ==
    \E a \in Identities, p \in ProofHashes \ {0} :
        /\ zkHealthAuthorities[a].registeredAt # 0
        /\ ~zkHealthAuthorities[a].isActive
        /\ zkProofs[p].generatedAt = 0
        /\ submitZKProofErr(p, 1, a) = "InvalidAuthority"
        /\ totalVerifications > 0
        /\ last.op = "updateHealthAuthorityStatus"

RECURSIVE SumLogs(_)
SumLogs(hashes) ==
    IF hashes = {} THEN 0
    ELSE LET p == CHOOSE q \in hashes : TRUE IN
         Len(verificationHistory[p]) + SumLogs(hashes \ {p})

IsPrefix(s, t) == Len(s) <= Len(t) /\ SubSeq(t, 1, Len(s)) = s

\* C9: the verification log of every proofHash is append-only; every
\* verifyProof call that executes, valid or invalid, appends exactly one
\* event (caller, returned outcome, timestamp, context) to the log of its
\* proofHash and adds 1 to totalVerifications, which always equals the sum
\* of the log lengths.
C9_AppendOnly ==
    /\ [](totalVerifications = SumLogs(ProofHashes))
    /\ [][/\ \A p \in ProofHashes :
                IsPrefix(verificationHistory[p], verificationHistory'[p])
          /\ \A c \in Identities, p \in ProofHashes, x \in Contexts :
                (~zkPaused /\ verifyZKProof(c, p, x)) =>
                    /\ verificationHistory' =
                          [verificationHistory EXCEPT ![p] =
                              Append(@, [proofHash |-> p, verifier |-> c,
                                         isValid |-> last'.ret,
                                         timestamp |-> now, context |-> x])]
                    /\ totalVerifications' = totalVerifications + 1
         ]_vars

\* C9 witness: the log of one proofHash holds an invalid entry followed by a
\* valid one.
C9_Witness ==
    \E p \in ProofHashes :
        /\ totalVerifications = 2
        /\ Len(verificationHistory[p]) = 2
        /\ ~verificationHistory[p][1].isValid
        /\ verificationHistory[p][2].isValid
        /\ verificationHistory[p][1].timestamp < verificationHistory[p][2].timestamp

ValidEntries(p) ==
    Cardinality({i \in 1..Len(verificationHistory[p]) :
                    verificationHistory[p][i].isValid})

\* C10: verificationCount grows by exactly 1 on a verifyProof that returns
\* true and is left alone by a verifyProof that returns false and by every
\* other operation, so it equals the number of valid entries of the proof's
\* log; after a verifyProof that returned true the proof still passes, so an
\* immediately following verifyProof returns true as well.
C10_CountsValidOnly ==
    /\ [](\A p \in ProofHashes : zkProofs[p].verificationCount = ValidEntries(p))
    /\ [][\A p \in ProofHashes :
            LET verified == Len(verificationHistory'[p])
                               = Len(verificationHistory[p]) + 1
                outcome == Last(verificationHistory'[p]).isValid
            IN  /\ zkProofs'[p].verificationCount =
                      zkProofs[p].verificationCount
                          + (IF verified /\ outcome THEN 1 ELSE 0)
                /\ (verified /\ outcome) =>
                      /\ last'.ret = TRUE
                      /\ verifyZKProofErr' = "none"
                      /\ verifyZKProofIsValid(p)'
         ]_vars

\* C10 witness: a proof was verified twice in a row, both times as valid.
C10_Witness ==
    \E p \in ProofHashes :
        /\ zkProofs[p].verificationCount = 2
        /\ Len(verificationHistory[p]) = 2

\* C11: authority names are globally unique: no two distinct identities hold
\* Authority records with the same name, and the name index maps every
\* registered name to the identity that holds it.
C11_Original ==
    /\ \A a \in Identities, b \in Identities :
          (/\ a # b
           /\ hasAuthorityRecord(a)
           /\ hasAuthorityRecord(b)) =>
              harHealthAuthorities[a].name # harHealthAuthorities[b].name
    /\ \A a \in Identities :
          hasAuthorityRecord(a) =>
              nameToAddress[harHealthAuthorities[a].name] = a

\* C12: when an identity has submitted an application under a name, a
\* submission of the same name by a different identity that has neither an
\* application nor an Authority record is rejected with NameAlreadyTaken.
C12_Original ==
    \A a \in Identities, b \in Identities :
        (/\ a # b
         /\ applications[a].appliedAt # 0
         /\ applications[b].appliedAt = 0
         /\ ~hasAuthorityRecord(b)
         /\ ~harPaused) =>
            submitApplicationErr(b, applications[a].name, PublicKeyLength)
                = "NameAlreadyTaken"

\* neither the issuing authority of the proof nor an ADMIN
Outsider(c, p) == c # zkProofs[p].authority /\ ~zkHasRole("ADMIN_ROLE", c)

\* C13: revokeProof on an existing proof by a caller that is neither its
\* issuing authority nor an ADMIN fails, with UnauthorizedAccess whenever
\* the registry is taking calls, and changes nothing: isRevoked stays false
\* and a verifyProof of the proof, all else being valid, returns true.
C13_OutsiderCannotRevoke ==
    /\ [](\A c \in Identities, p \in ProofHashes :
            (zkProofs[p].generatedAt # 0 /\ Outsider(c, p)) =>
                /\ revokeZKProofErr(c, p) \in {"UnauthorizedAccess", "EnforcedPause"}
                /\ ~zkPaused => revokeZKProofErr(c, p) = "UnauthorizedAccess")
    /\ [][\A c \in Identities, p \in ProofHashes :
            /\ (/\ zkProofs[p].generatedAt # 0
                /\ Outsider(c, p)
                /\ revokeZKProof(c, p)) =>
                   /\ zkProofs'[p].isRevoked = zkProofs[p].isRevoked
                   /\ verifyZKProofIsValid(p)' = verifyZKProofIsValid(p)
            /\ \A v \in Identities, x \in Contexts :
                  (/\ FiveConditions(p)
                   /\ ~zkProofs[p].isRevoked
                   /\ verifyZKProofErr = "none"
                   /\ verifyZKProof(v, p, x)) => last'.ret = TRUE
         ]_vars

\* C13 witness: a stored, unrevoked proof that an outsider's revokeProof is
\* rejected for with UnauthorizedAccess has just been verified as valid.
C13_Witness ==
    \E p \in ProofHashes :
        /\ zkProofs[p].generatedAt # 0
        /\ ~zkProofs[p].isRevoked
        /\ Outsider("bob", p)
        /\ revokeZKProofErr("bob", p) = "UnauthorizedAccess"
        /\ last.op = "verifyZKProof"
        /\ last.ret = TRUE
        /\ Last(verificationHistory[p]).isValid

\* C14: approveApplication, rejectApplication and updateStatus take effect
\* only for a caller holding the registrar role: for any other caller each
\* of them fails, so every step that creates an Authority record, changes an
\* Authority's status or processes an Application is a call by a registrar.
C14_RegistrarOnly ==
    /\ [](\A c \in Identities, a \in Identities, st \in AuthorityStatus :
            ~harHasRole("REGISTRAR_ROLE", c) =>
                /\ approveApplicationErr(c, a) # "none"
                /\ rejectApplicationErr(c, a) # "none"
                /\ updateAuthorityStatusErr(c, a, st) # "none")
    /\ [][/\ (\E a \in Identities :
                \/ harHealthAuthorities'[a].registeredAt
                       # harHealthAuthorities[a].registeredAt
                \/ harHealthAuthorities'[a].status # harHealthAuthorities[a].status
                \/ applications'[a].isProcessed # applications[a].isProcessed) =>
                   /\ last'.op \in {"approveApplication", "rejectApplication",
                                    "updateAuthorityStatus"}
                   /\ harHasRole("REGISTRAR_ROLE", last'.caller)
          /\ last'.op \in {"approveApplication", "rejectApplication",
                           "updateAuthorityStatus"} =>
                harHasRole("REGISTRAR_ROLE", last'.caller)
         ]_vars

\* C14 witness: a registrar has just changed the status of an approved
\* Authority while another application is still waiting, and an identity
\* without the role is refused all three operations.
C14_Witness ==
    \E a \in Identities, b \in Identities :
        /\ hasAuthorityRecord(a)
        /\ harHealthAuthorities[a].status = "Suspended"
        /\ hasLiveApplication(b)
        /\ last.op = "updateAuthorityStatus"
        /\ harHasRole("REGISTRAR_ROLE", last.caller)
        /\ ~harHasRole("REGISTRAR_ROLE", "bob")
        /\ approveApplicationErr("bob", b) = "AccessControlUnauthorizedAccount"
        /\ rejectApplicationErr("bob", b) = "AccessControlUnauthorizedAccount"
        /\ updateAuthorityStatusErr("bob", a, "Active")
               = "AccessControlUnauthorizedAccount"

\* the mutating entry points the pause is stated to suspend
PausableEntryPoints ==
    {"submitApplication", "approveApplication", "rejectApplication",
     "updateAuthorityStatus", "updateAuthorityInfo",
     "recordHealthRecordIssued", "recordHealthRecordRevoked",
     "submitZKProof", "revokeZKProof", "revokeHealthRecord"}

\* C15: only an ADMIN can pause or unpause, and while both registries are
\* paused no call of submitApplication, approveApplication,
\* rejectApplication, updateStatus, updateContactInfo, recordIssuance,
\* recordRevocation, submitProof, revokeProof or revokeHealthRecord changes
\* the state of either registry.
C15_Original ==
    [][/\ \A c \in Identities :
             ~harHasRole("ADMIN_ROLE", c) =>
                 /\ harPauseErr(c) # "none"
                 /\ harUnpauseErr(c) # "none"
                 /\ zkPauseErr(c) # "none"
                 /\ zkUnpauseErr(c) # "none"
       /\ (harPaused /\ zkPaused /\ last'.op \in PausableEntryPoints) =>
             UNCHANGED <<harVars, zkVars>>
      ]_vars

\* C16: health-record revocation is scoped to the revoking authority: when
\* authority A's revokeHealthRecord(h) succeeds, every proof A issued for h
\* verifies false from then on, and the outcome of verifyProof for every
\* proof issued by a different authority, the same hash h included, is what
\* it was before the call.
C16_RevocationScoped ==
    /\ [](\A p \in ScopeProofHashes :
            (/\ zkProofs[p].generatedAt # 0
             /\ zkProofs[p].healthRecordHash
                   \in zkHealthAuthorities[zkProofs[p].authority].revokedRecords) =>
                ~verifyZKProofIsValid(p))
    /\ [][\A a \in Identities, h \in RecordHashes :
            /\ (revokeHealthRecordErr(a) = "none" /\ revokeHealthRecord(a, h)) =>
                  \A p \in ScopeProofHashes :
                      /\ (/\ zkProofs[p].generatedAt # 0
                          /\ zkProofs[p].authority = a
                          /\ zkProofs[p].healthRecordHash = h) =>
                             ~verifyZKProofIsValid(p)'
                      /\ zkProofs[p].authority # a =>
                             verifyZKProofIsValid(p)' = verifyZKProofIsValid(p)
            /\ \A v \in Identities, p \in ScopeProofHashes, x \in Contexts :
                  (/\ verifyZKProofErr = "none"
                   /\ verifyZKProof(v, p, x)) =>
                      last'.ret = verifyZKProofIsValid(p)
         ]_vars

\* C16 witness: alice and bob each issued a proof for the same record hash,
\* alice revoked the record, then alice's proof verified false and after it
\* bob's proof verified true.
C16_Witness ==
    \E p \in ScopeProofHashes, q \in ScopeProofHashes :
        /\ zkProofs[p].authority = "alice"
        /\ zkProofs[q].authority = "bob"
        /\ zkProofs[p].healthRecordHash = zkProofs[q].healthRecordHash
        /\ zkProofs[p].healthRecordHash
              \in zkHealthAuthorities["alice"].revokedRecords
        /\ zkProofs[q].healthRecordHash
              \notin zkHealthAuthorities["bob"].revokedRecords
        /\ Len(verificationHistory[p]) = 1
        /\ ~verificationHistory[p][1].isValid
        /\ Len(verificationHistory[q]) = 1
        /\ verificationHistory[q][1].isValid
        /\ last.op = "verifyZKProof"
        /\ last.ret = TRUE

\* may flag health records: a currently active authority or an ADMIN
MayRevokeRecords(c) ==
    zkHealthAuthorities[c].isActive \/ zkHasRole("ADMIN_ROLE", c)

Expired(p) == zkProofs[p].expiresAt > 0 /\ now > zkProofs[p].expiresAt

\* valid but for expiry: stored, not revoked, authority active, record not
\* flagged
OtherwiseValid(p) ==
    /\ zkProofs[p].generatedAt # 0
    /\ ~zkProofs[p].isRevoked
    /\ zkHealthAuthorities[zkProofs[p].authority].isActive
    /\ zkProofs[p].healthRecordHash
          \notin zkHealthAuthorities[zkProofs[p].authority].revokedRecords

\* C18: expiry follows from time alone under one policy: a proof with
\* expiresAt = 0 never expires and one with expiresAt > 0 is expired exactly
\* when now > expiresAt, so an otherwise valid proof verifies true on every
\* call up to and at now = expiresAt and false on every call after it; an
\* expired proof stays expired.
C18_ExpiryPolicy ==
    /\ [](\A p \in ProofHashes :
            /\ zkProofs[p].expiresAt = 0 => ~Expired(p)
            /\ OtherwiseValid(p) => (verifyZKProofIsValid(p) <=> ~Expired(p))
            /\ Expired(p) => ~verifyZKProofIsValid(p))
    /\ [][\A p \in ProofHashes :
            /\ Expired(p) => Expired(p)'
            /\ \A v \in Identities, x \in Contexts :
                  (/\ verifyZKProofErr = "none"
                   /\ OtherwiseValid(p)
                   /\ verifyZKProof(v, p, x)) =>
                      /\ last'.ret = ~Expired(p)
                      /\ Last(verificationHistory'[p]).isValid = ~Expired(p)
                      /\ verifyZKProofIsValid(p)' = ~Expired(p)
         ]_vars

\* C18 witness: a proof with an expiry was verified twice at now =
\* expiresAt, both times as valid.
C18_Witness ==
    \E p \in ProofHashes :
        /\ zkProofs[p].expiresAt > 0
        /\ zkProofs[p].generatedAt < zkProofs[p].expiresAt
        /\ now = zkProofs[p].expiresAt
        /\ Len(verificationHistory[p]) = 2
        /\ \A i \in 1..2 :
              /\ verificationHistory[p][i].isValid
              /\ verificationHistory[p][i].timestamp = zkProofs[p].expiresAt

\* C18 second case, reached as well: a proof verified as valid at now =
\* expiresAt and as invalid once now > expiresAt.
C18_WitnessExpired ==
    \E p \in ProofHashes :
        /\ OtherwiseValid(p)
        /\ Expired(p)
        /\ Len(verificationHistory[p]) = 2
        /\ verificationHistory[p][1].isValid
        /\ verificationHistory[p][1].timestamp = zkProofs[p].expiresAt
        /\ ~verificationHistory[p][2].isValid
        /\ last.op = "verifyZKProof"
        /\ last.ret = FALSE

\* C19: while the registry is taking calls, updateStatus by a registrar
\* succeeds for every existing Authority and every target status, whatever
\* the current status, and sets status to the target; it fails, with
\* InvalidAuthority, only for an identity without an Authority record.
C19_AnyStatusFromAny ==
    /\ [](/\ activeAuthorities =
                Cardinality({a \in Identities :
                    hasAuthorityRecord(a) /\ harHealthAuthorities[a].status = "Active"})
          /\ \A c \in Identities, a \in Identities, st \in AuthorityStatus :
                (harHasRole("REGISTRAR_ROLE", c) /\ ~harPaused) =>
                    updateAuthorityStatusErr(c, a, st) =
                        IF hasAuthorityRecord(a) THEN "none" ELSE "InvalidAuthority")
    /\ [][\A c \in Identities, a \in Identities, st \in AuthorityStatus :
            (/\ updateAuthorityStatusErr(c, a, st) = "none"
             /\ updateAuthorityStatus(c, a, st)) =>
                /\ harHealthAuthorities'[a].status = st
                /\ harHealthAuthorities'[a].lastUpdated = now
                /\ \A b \in Identities \ {a} :
                      harHealthAuthorities'[b] = harHealthAuthorities[b]
         ]_vars

\* C19 witness: a registrar has just set an existing Authority back to
\* Pending, no Authority is Active, and every target status is open to it.
C19_Witness ==
    \E a \in Identities :
        /\ hasAuthorityRecord(a)
        /\ harHealthAuthorities[a].status = "Pending"
        /\ harHealthAuthorities[a].lastUpdated > harHealthAuthorities[a].registeredAt
        /\ activeAuthorities = 0
        /\ last.op = "updateAuthorityStatus"
        /\ \A st \in AuthorityStatus : updateAuthorityStatusErr(Admin, a, st) = "none"

\* the status graph of the data model
StatusGraph ==
    {<<"Active", "Suspended">>, <<"Suspended", "Active">>,
     <<"Active", "Revoked">>, <<"Suspended", "Revoked">>}

\* C20 as stated: a record is created as Active, its status then moves only
\* along Active <-> Suspended and Active | Suspended -> Revoked, Revoked is
\* kept for ever, and no Authority record has status Pending.
C20_Original ==
    [][\A a \in Identities :
          /\ (~hasAuthorityRecord(a) /\ hasAuthorityRecord(a)') =>
                harHealthAuthorities'[a].status = "Active"
          /\ (/\ hasAuthorityRecord(a)
              /\ harHealthAuthorities'[a].status # harHealthAuthorities[a].status) =>
                <<harHealthAuthorities[a].status, harHealthAuthorities'[a].status>>
                    \in StatusGraph
          /\ hasAuthorityRecord(a)' => harHealthAuthorities'[a].status # "Pending"
      ]_vars

\* C20 amended: a record is created as Active by approveApplication and is
\* never removed; after that its status changes only by a registrar's
\* updateStatus, which may set any of the four statuses from any other, so
\* Revoked is not terminal and a record may be put back to Pending.
C20_Amended ==
    [][\A a \in Identities :
          /\ hasAuthorityRecord(a) => hasAuthorityRecord(a)'
          /\ (~hasAuthorityRecord(a) /\ hasAuthorityRecord(a)') =>
                /\ last'.op = "approveApplication"
                /\ harHealthAuthorities'[a].status = "Active"
          /\ ~hasAuthorityRecord(a)' => harHealthAuthorities'[a] = NoHarAuthority
          /\ (/\ hasAuthorityRecord(a)
              /\ harHealthAuthorities'[a].status # harHealthAuthorities[a].status) =>
                /\ last'.op = "updateAuthorityStatus"
                /\ harHasRole("REGISTRAR_ROLE", last'.caller)
                /\ harHealthAuthorities'[a].status \in AuthorityStatus
      ]_vars

\* C20 witness: one Authority record is Revoked and open to being set
\* Active again, another has been put back to Pending.
C20_Witness ==
    \E a \in Identities, b \in Identities :
        /\ hasAuthorityRecord(a)
        /\ harHealthAuthorities[a].status = "Revoked"
        /\ updateAuthorityStatusErr(Admin, a, "Active") = "none"
        /\ hasAuthorityRecord(b)
        /\ harHealthAuthorities[b].status = "Pending"
        /\ last.op = "updateAuthorityStatus"

\* the identities whose Authority record has status Active
ActiveRecords ==
    {a \in Identities :
        hasAuthorityRecord(a) /\ harHealthAuthorities[a].status = "Active"}

\* C21: activeAuthorities equals the number of Authority records with status
\* Active, and totalAuthorities the number of Authority records, which is
\* the length of the duplicate-free allAuthorities list; activeAuthorities
\* moves by +1 or -1 only, on an approval or on an updateStatus crossing
\* into or out of Active, and its decrement never underflows.
C21_CountersMatch ==
    /\ [](/\ activeAuthorities = Cardinality(ActiveRecords)
          /\ harTotalAuthorities =
                Cardinality({a \in Identities : hasAuthorityRecord(a)})
          /\ harTotalAuthorities = Len(allAuthorities)
          /\ \A a \in Identities :
                Count(allAuthorities, a) = IF hasAuthorityRecord(a) THEN 1 ELSE 0
          /\ \A c \in Identities, a \in Identities, st \in AuthorityStatus :
                updateAuthorityStatusErr(c, a, st) # "Panic")
    /\ [][/\ activeAuthorities' = activeAuthorities + 1 =>
                \/ last'.op = "approveApplication"
                \/ /\ last'.op = "updateAuthorityStatus"
                   /\ \E a \in Identities :
                         /\ harHealthAuthorities[a].status # "Active"
                         /\ harHealthAuthorities'[a].status = "Active"
          /\ activeAuthorities' = activeAuthorities - 1 =>
                /\ last'.op = "updateAuthorityStatus"
                /\ \E a \in Identities :
                      /\ harHealthAuthorities[a].status = "Active"
                      /\ harHealthAuthorities'[a].status # "Active"
          /\ activeAuthorities' \in
                {activeAuthorities - 1, activeAuthorities, activeAuthorities + 1}
         ]_vars

\* C21 witness: two Authority records, one Active and one moved out of
\* Active by the last call, so the two counters differ.
C21_Witness ==
    /\ harTotalAuthorities = 2
    /\ activeAuthorities = 1
    /\ Len(allAuthorities) = 2
    /\ last.op = "updateAuthorityStatus"
    /\ \E a \in Identities :
          hasAuthorityRecord(a) /\ harHealthAuthorities[a].status = "Revoked"

\* C22: for every authority a, the AuthorityRegistry record's
\* totalRecordsIssued equals the number of proofs stored in the proof
\* registry with issuing authority a.
C22_Original ==
    \A a \in Identities :
        harHealthAuthorities[a].totalRecordsIssued =
            Cardinality({p \in StoredProofs : zkProofs[p].authority = a})

\* C23: every successful first revokeProof on a proof whose issuing
\* authority has an AuthorityRegistry record raises that record's
\* totalRecordsRevoked by 1, and recordRevocation only ever increments.
C23_Original ==
    [][/\ \A c \in Identities, p \in ProofHashes :
            (/\ revokeZKProofErr(c, p) = "none"
             /\ ~zkProofs[p].isRevoked
             /\ hasAuthorityRecord(zkProofs[p].authority)
             /\ revokeZKProof(c, p)) =>
                harHealthAuthorities'[zkProofs[p].authority].totalRecordsRevoked =
                    harHealthAuthorities[zkProofs[p].authority].totalRecordsRevoked + 1
       /\ \A a \in Identities :
            harHealthAuthorities'[a].totalRecordsRevoked
                >= harHealthAuthorities[a].totalRecordsRevoked
      ]_vars

\* C24: no identity holds a live (unprocessed) Application and a registered
\* Authority record at the same time.
C24_NotBoth ==
    \A a \in Identities : ~(hasLiveApplication(a) /\ hasAuthorityRecord(a))

\* C24 witness: an approval has just turned one identity's application into
\* an Authority record while another identity's application is still live.
C24_Witness ==
    \E a \in Identities, b \in Identities :
        /\ hasAuthorityRecord(a)
        /\ applications[a].isProcessed
        /\ hasLiveApplication(b)
        /\ ~hasAuthorityRecord(b)
        /\ last.op = "approveApplication"

\* C25 as stated: while the registry takes calls, submitApplication succeeds
\* whenever the caller has no live Application and no Authority record, the
\* name is not taken and the public key has the expected length, an
\* identity whose application was rejected included.
C25_Original ==
    \A c \in Identities, n \in Names :
        (/\ ~harPaused
         /\ ~hasLiveApplication(c)
         /\ ~hasAuthorityRecord(c)
         /\ nameToAddress[n] = ZeroAddress) =>
            submitApplicationErr(c, n, PublicKeyLength) = "none"

\* C25 amended: while the registry takes calls, submitApplication succeeds
\* exactly when the caller has never submitted an Application, has no
\* Authority record, the name is not in the name index and the public key
\* has the expected length; an identity whose application was processed,
\* rejected ones included, is refused with ApplicationAlreadyExists.
C25_Amended ==
    \A c \in Identities, n \in Names, k \in KeyLengths :
        ~harPaused =>
            /\ submitApplicationErr(c, n, k) = "none" <=>
                  /\ applications[c].appliedAt = 0
                  /\ ~hasAuthorityRecord(c)
                  /\ nameToAddress[n] = ZeroAddress
                  /\ k = PublicKeyLength
            /\ applications[c].isProcessed =>
                  submitApplicationErr(c, n, k) = "ApplicationAlreadyExists"

\* C25 witness: an identity whose application has just been rejected holds
\* no Authority record, a free name exists, and its new submission is
\* refused with ApplicationAlreadyExists.
C25_Witness ==
    \E c \in Identities, n \in Names :
        /\ applications[c].isProcessed
        /\ applications[c].rejectionReason # ""
        /\ ~hasAuthorityRecord(c)
        /\ nameToAddress[n] = ZeroAddress
        /\ ~harPaused
        /\ last.op = "rejectApplication"
        /\ submitApplicationErr(c, n, PublicKeyLength) = "ApplicationAlreadyExists"

\* C26: revokeProof is idempotent: called on an already revoked proof by
\* its issuing authority or an ADMIN, while the registry takes calls, it
\* raises no error and leaves the proof record and every table, log and
\* counter of both registries as they were after the first revocation.
C26_RevokeIdempotent ==
    /\ [](\A c \in Identities, p \in ProofHashes :
            (/\ zkProofs[p].isRevoked
             /\ ~Outsider(c, p)
             /\ ~zkPaused) => revokeZKProofErr(c, p) = "none")
    /\ [][\A c \in Identities, p \in ProofHashes :
            (zkProofs[p].isRevoked /\ revokeZKProof(c, p)) =>
                /\ zkProofs' = zkProofs
                /\ UNCHANGED <<harVars, zkVars>>
         ]_vars

\* C26 witness: a revoked proof that was verified as invalid after its
\* revocation has been revoked once more by the last call.
C26_Witness ==
    \E p \in ProofHashes :
        /\ zkProofs[p].isRevoked
        /\ zkProofs[p].expiresAt = 0
        /\ zkHealthAuthorities[zkProofs[p].authority].isActive
        /\ zkHealthAuthorities[zkProofs[p].authority].revokedRecords = {}
        /\ Len(verificationHistory[p]) = 1
        /\ ~verificationHistory[p][1].isValid
        /\ last.op = "revokeZKProof"
        /\ revokeZKProofErr(last.caller, p) = "none"

\* C27: while the registry takes calls, revokeProof checks existence before
\* authorization: for a proofHash without a stored proof it fails with
\* InvalidProof for every caller; for a stored proof it fails with
\* UnauthorizedAccess exactly when the caller is neither the issuing
\* authority nor an ADMIN, and otherwise sets isRevoked and nothing else.
C27_ExistenceFirst ==
    /\ [](\A c \in Identities, p \in ProofHashes :
            ~zkPaused =>
                revokeZKProofErr(c, p) =
                    IF zkProofs[p].generatedAt = 0 THEN "InvalidProof"
                    ELSE IF Outsider(c, p) THEN "UnauthorizedAccess"
                    ELSE "none")
    /\ [][\A c \in Identities, p \in ProofHashes :
            (revokeZKProofErr(c, p) = "none" /\ revokeZKProof(c, p)) =>
                /\ zkProofs' = [zkProofs EXCEPT ![p].isRevoked = TRUE]
                /\ zkProofs'[p].isRevoked
         ]_vars

\* C27 witness: the issuing authority has just revoked its proof; for a
\* hash without a proof every caller gets InvalidProof, for the stored proof
\* a stranger gets UnauthorizedAccess and the admin no error.
C27_Witness ==
    \E p \in ProofHashes, q \in ProofHashes :
        /\ zkProofs[p].generatedAt # 0
        /\ zkProofs[p].isRevoked
        /\ zkProofs[q].generatedAt = 0
        /\ last.op = "revokeZKProof"
        /\ last.caller = zkProofs[p].authority
        /\ \A c \in Identities : revokeZKProofErr(c, q) = "InvalidProof"
        /\ revokeZKProofErr("bob", p) = "UnauthorizedAccess"
        /\ revokeZKProofErr(Admin, p) = "none"

\* C28: every stored proof has a non-zero proofHash, kept in its record,
\* and a non-zero healthRecordHash; the proofHashes index holds every stored
\* proofHash exactly once and nothing else; totalProofs is the number of
\* stored proofs; and while the registry takes calls a submitProof with a
\* used proofHash fails with ProofAlreadyExists whatever its other
\* arguments.
C28_ProofKeys ==
    /\ totalProofs = Cardinality(StoredProofs)
    /\ Len(proofHashes) = totalProofs
    /\ \A p \in ProofHashes :
          /\ Count(proofHashes, p) = IF p \in StoredProofs THEN 1 ELSE 0
          /\ p \in StoredProofs =>
                /\ p # 0
                /\ zkProofs[p].proofHash = p
                /\ zkProofs[p].healthRecordHash # 0
                /\ ~zkPaused =>
                      \A h \in RecordHashes, a \in Identities :
                          submitZKProofErr(p, h, a) = "ProofAlreadyExists"
          /\ p \notin StoredProofs => zkProofs[p] = NoProof

\* C28 witness: one proof is stored and its authority has been deactivated
\* since; a new submission of its hash, even with a zero record hash and an
\* unregistered authority, is refused with ProofAlreadyExists.
C28_Witness ==
    \E p \in ProofHashes :
        /\ p \in StoredProofs
        /\ totalProofs = 1
        /\ proofHashes = <<p>>
        /\ ~zkHealthAuthorities[zkProofs[p].authority].isActive
        /\ ~zkPaused
        /\ submitZKProofErr(p, 0, "bob") = "ProofAlreadyExists"
        /\ submitZKProofErr(0, 1, zkProofs[p].authority) = "InvalidAuthority"

\* C29 as stated: for every proofHash the length of its verification log
\* equals the proof's verificationCount.
C29_Original ==
    \A p \in ProofHashes :
        Len(verificationHistory[p]) = zkProofs[p].verificationCount

InvalidEntries(p) ==
    Cardinality({i \in 1..Len(verificationHistory[p]) :
                    ~verificationHistory[p][i].isValid})

\* C29 amended: for every proofHash the length of its verification log is
\* the proof's verificationCount plus the number of entries logged with
\* isValid = false, so the log is at least as long as verificationCount and
\* as long exactly when no verification of that proofHash came out invalid.
C29_Amended ==
    \A p \in ProofHashes :
        /\ Len(verificationHistory[p]) =
              zkProofs[p].verificationCount + InvalidEntries(p)
        /\ zkProofs[p].verificationCount <= Len(verificationHistory[p])
        /\ zkProofs[p].generatedAt = 0 =>
              InvalidEntries(p) = Len(verificationHistory[p])

\* C29 witness: a stored proof was verified once as valid and once as
\* invalid: its log has two entries, its verificationCount is 1.
C29_Witness ==
    \E p \in ProofHashes :
        /\ zkProofs[p].generatedAt # 0
        /\ Len(verificationHistory[p]) = 2
        /\ zkProofs[p].verificationCount = 1
        /\ InvalidEntries(p) = 1

\* C30: the totalAuthorities value of the proof registry's system statistics
\* equals AuthorityRegistry's totalAuthorities, the number of approved
\* Authority records.
C30_Original ==
    /\ getSystemStats._totalAuthorities = harTotalAuthorities
    /\ getSystemStats._totalAuthorities =
          Cardinality({a \in Identities : hasAuthorityRecord(a)})

\* C31: once a proof is stored, its proofHash, healthRecordHash, issuing
\* authority, generatedAt and expiresAt never change under any operation of
\* either registry; its isRevoked changes only by revokeProof and its
\* verificationCount only by verifyProof.
C31_StoredProofImmutable ==
    [][\A p \in ProofHashes :
          zkProofs[p].generatedAt # 0 =>
              /\ zkProofs'[p].proofHash = zkProofs[p].proofHash
              /\ zkProofs'[p].healthRecordHash = zkProofs[p].healthRecordHash
              /\ zkProofs'[p].authority = zkProofs[p].authority
              /\ zkProofs'[p].generatedAt = zkProofs[p].generatedAt
              /\ zkProofs'[p].expiresAt = zkProofs[p].expiresAt
              /\ zkProofs'[p].isRevoked # zkProofs[p].isRevoked =>
                    last'.op = "revokeZKProof"
              /\ zkProofs'[p].verificationCount # zkProofs[p].verificationCount =>
                    /\ last'.op = "verifyZKProof"
                    /\ zkProofs'[p].verificationCount =
                          zkProofs[p].verificationCount + 1
      ]_vars

\* C31 witness: a stored proof that was verified and then revoked, whose
\* authority was suspended in AuthorityRegistry and deactivated in the proof
\* registry after having flagged a record, still carries the fields it was
\* submitted with.
C31_Witness ==
    \E p \in ProofHashes :
        /\ zkProofs[p].generatedAt # 0
        /\ zkProofs[p].proofHash = p
        /\ zkProofs[p].authority = "alice"
        /\ zkProofs[p].expiresAt = MaxTime
        /\ zkProofs[p].isRevoked
        /\ zkProofs[p].verificationCount = 1
        /\ ~zkHealthAuthorities["alice"].isActive
        /\ zkHealthAuthorities["alice"].revokedRecords # {}
        /\ harHealthAuthorities["alice"].status = "Suspended"

\* C32: while the registry takes calls, updateContactInfo(identity, ...)
\* fails with UnauthorizedAccess for a caller that is neither that identity
\* nor an ADMIN, otherwise with InvalidAuthority when the identity has no
\* Authority record, and otherwise succeeds; a successful call changes only
\* contactInfo, the certificate reference and lastUpdated of that identity's
\* record and leaves every other field, record, index and counter alone.
C32_InfoUpdate ==
    /\ [](\A c \in Identities, a \in Identities :
            ~harPaused =>
                updateAuthorityInfoErr(c, a) =
                    IF c # a /\ ~harHasRole("ADMIN_ROLE", c) THEN "UnauthorizedAccess"
                    ELSE IF ~hasAuthorityRecord(a) THEN "InvalidAuthority"
                    ELSE "none")
    /\ [][\A c \in Identities, a \in Identities,
             i \in NewContactInfos, h \in NewCertificateHashes :
            (updateAuthorityInfoErr(c, a) = "none" /\ updateAuthorityInfo(c, a, i, h)) =>
                /\ harHealthAuthorities' = [harHealthAuthorities EXCEPT ![a] =
                      [@ EXCEPT !.contactInfo = i, !.certificateHash = h,
                                !.lastUpdated = now]]
                /\ UNCHANGED <<applications, nameToAddress, authoritiesByType,
                               authoritiesByCountry, allAuthorities,
                               pendingApplications, harTotalAuthorities,
                               activeAuthorities, pendingApplicationsCount,
                               harPaused, zkVars>>
         ]_vars

\* C32 witness: the admin has just replaced the contact data of a suspended
\* Authority that has an issuance counted; its name, status and counters
\* are as before and a stranger is refused with UnauthorizedAccess.
C32_Witness ==
    /\ hasAuthorityRecord("alice")
    /\ harHealthAuthorities["alice"].contactInfo = "c1"
    /\ harHealthAuthorities["alice"].certificateHash = "Qm1"
    /\ harHealthAuthorities["alice"].lastUpdated
          > harHealthAuthorities["alice"].registeredAt
    /\ harHealthAuthorities["alice"].status = "Suspended"
    /\ harHealthAuthorities["alice"].totalRecordsIssued = 1
    /\ harHealthAuthorities["alice"].name = applications["alice"].name
    /\ last.op = "updateAuthorityInfo"
    /\ last.caller = Admin
    /\ ~hasAuthorityRecord("bob")
    /\ updateAuthorityInfoErr("bob", "alice") = "UnauthorizedAccess"
    /\ updateAuthorityInfoErr("bob", "bob") = "InvalidAuthority"

isActiveAuthority(authority) == harHealthAuthorities[authority].status = "Active"

\* C33: a successful rejectApplication(identity, reason) marks the
\* Application processed with the given reason, takes the identity out of
\* the pending list, lowers the pending count by exactly 1 and creates no
\* Authority: the identity has no Authority record afterwards,
\* isActiveAuthority(identity) is false, and the authority table, both
\* authority counters and the name, type, country and enumeration indexes
\* are unchanged.
C33_RejectCreatesNothing ==
    [][\A c \in Identities, a \in Identities, r \in Reasons :
        (rejectApplicationErr(c, a) = "none" /\ rejectApplication(c, a, r)) =>
            /\ applications' = [applications EXCEPT
                   ![a].isProcessed = TRUE, ![a].rejectionReason = r]
            /\ ~applications[a].isProcessed
            /\ Count(pendingApplications, a) = 1
            /\ Count(pendingApplications', a) = 0
            /\ \A b \in Identities \ {a} :
                   Count(pendingApplications', b) = Count(pendingApplications, b)
            /\ pendingApplicationsCount' = pendingApplicationsCount - 1
            /\ ~hasAuthorityRecord(a)'
            /\ ~isActiveAuthority(a)'
            /\ UNCHANGED <<harHealthAuthorities, nameToAddress,
                           authoritiesByType, authoritiesByCountry,
                           allAuthorities, harTotalAuthorities,
                           activeAuthorities>>
      ]_vars

\* C33 witness: alice has just been rejected while bob is still pending and
\* another Authority is registered.
C33_Witness ==
    /\ last.op = "rejectApplication"
    /\ applications["alice"].isProcessed
    /\ applications["alice"].rejectionReason = "incomplete"
    /\ ~hasAuthorityRecord("alice")
    /\ ~isActiveAuthority("alice")
    /\ pendingApplications = <<"bob">>
    /\ pendingApplicationsCount = 1

\* C34: pendingApplicationsCount equals the length of the pending list, the
\* list holds no identity twice, an identity is in the list exactly when it
\* has an Application that is not processed, and neither approval nor
\* rejection ever meets a pending count of 0 to decrement.
C34_PendingListExact ==
    /\ pendingApplicationsCount = Len(pendingApplications)
    /\ \A a \in Identities : Count(pendingApplications, a) <= 1
    /\ \A a \in Identities :
          Count(pendingApplications, a) = 1
              <=> (applications[a].appliedAt # 0 /\ ~applications[a].isProcessed)
    /\ \A c \in Identities, a \in Identities :
          /\ approveApplicationErr(c, a) # "Panic"
          /\ rejectApplicationErr(c, a) # "Panic"

\* C34 witness: three identities applied, the first of the list was
\* processed, and the swap moved the latest applicant in front of an
\* earlier one.
C34_Witness ==
    /\ pendingApplications = <<"bob", "alice">>
    /\ pendingApplicationsCount = 2
    /\ applications["alice"].appliedAt < applications["bob"].appliedAt
    /\ applications[Admin].isProcessed
    /\ last.op \in {"approveApplication", "rejectApplication"}

\* C35: while the registry takes calls, submitApplication reports the first
\* failing check in the order ApplicationAlreadyExists,
\* AuthorityAlreadyExists, NameAlreadyTaken, InvalidPublicKey; every
\* Authority record belongs to an identity whose Application has a non-zero
\* appliedAt, so a registered authority that applies again gets
\* ApplicationAlreadyExists and AuthorityAlreadyExists is never raised.
C35_CheckOrder ==
    /\ \A c \in Identities, n \in Names, k \in KeyLengths :
          ~harPaused =>
              submitApplicationErr(c, n, k) =
                  IF applications[c].appliedAt # 0 THEN "ApplicationAlreadyExists"
                  ELSE IF hasAuthorityRecord(c) THEN "AuthorityAlreadyExists"
                  ELSE IF nameToAddress[n] # ZeroAddress THEN "NameAlreadyTaken"
                  ELSE IF k # PublicKeyLength THEN "InvalidPublicKey"
                  ELSE "none"
    /\ \A a \in Identities : hasAuthorityRecord(a) => applications[a].appliedAt # 0
    /\ \A c \in Identities, n \in Names, k \in KeyLengths :
          /\ submitApplicationErr(c, n, k) # "AuthorityAlreadyExists"
          /\ (hasAuthorityRecord(c) /\ ~harPaused) =>
                 submitApplicationErr(c, n, k) = "ApplicationAlreadyExists"

\* C35 witness: alice is registered under a name, bob has just applied, and
\* the outcomes of a further application by alice, by bob and by an identity
\* that never applied show the four errors' precedence.
C35_Witness ==
    /\ last.op = "submitApplication"
    /\ last.caller = "bob"
    /\ ~harPaused
    /\ hasAuthorityRecord("alice")
    /\ nameToAddress["Clinic"] = "alice"
    /\ nameToAddress["City Hospital"] = ZeroAddress
    /\ submitApplicationErr("alice", "Clinic", 33) = "ApplicationAlreadyExists"
    /\ submitApplicationErr("bob", "Clinic", 33) = "ApplicationAlreadyExists"
    /\ submitApplicationErr(Admin, "Clinic", 33) = "NameAlreadyTaken"
    /\ submitApplicationErr(Admin, "City Hospital", 33) = "InvalidPublicKey"
    /\ submitApplicationErr(Admin, "City Hospital", PublicKeyLength) = "none"

\* C36: a verifyProof that executes on a proofHash that was never submitted
\* returns false, appends one isValid = false event to that hash's log and
\* raises totalVerifications by 1, and creates no proof record: the proof
\* table, totalProofs and the proof index are unchanged and the outcome of
\* a submitProof with that hash is what it was before.  A successful
\* submitProof leaves the log alone, so the log of a stored proof holds the
\* invalid entries made before its submission followed by the later ones.
C36_UnknownHashVerification ==
    /\ [][\A c \in Identities, p \in ProofHashes, x \in Contexts :
            (/\ verifyZKProofErr = "none"
             /\ zkProofs[p].generatedAt = 0
             /\ verifyZKProof(c, p, x)) =>
                /\ last'.ret = FALSE
                /\ verificationHistory' = [verificationHistory EXCEPT ![p] =
                       Append(@, [proofHash |-> p, verifier |-> c,
                                  isValid |-> FALSE, timestamp |-> now,
                                  context |-> x])]
                /\ totalVerifications' = totalVerifications + 1
                /\ UNCHANGED <<zkProofs, totalProofs, proofHashes>>
                /\ \A h \in RecordHashes, a \in Identities :
                       submitZKProofErr(p, h, a)' = submitZKProofErr(p, h, a)
         ]_vars
    /\ [][\A c \in Identities, p \in ProofHashes, h \in RecordHashes,
             a \in Identities, t \in ExpiryTimes :
            (submitZKProofErr(p, h, a) = "none" /\ submitZKProof(c, p, h, a, t)) =>
                UNCHANGED verificationHistory
         ]_vars
    /\ [](\A p \in ProofHashes : \A i \in 1..Len(verificationHistory[p]) :
            verificationHistory[p][i].isValid =>
                /\ zkProofs[p].generatedAt # 0
                /\ verificationHistory[p][i].timestamp >= zkProofs[p].generatedAt)

\* C36 witness: a hash was verified before it was submitted, then submitted
\* and verified again: its log holds the early invalid entry followed by a
\* valid one, and both verifications are counted.
C36_Witness ==
    /\ last.op = "verifyZKProof"
    /\ zkProofs[1].generatedAt # 0
    /\ totalProofs = 1
    /\ proofHashes = <<1>>
    /\ Len(verificationHistory[1]) = 2
    /\ ~verificationHistory[1][1].isValid
    /\ verificationHistory[1][1].timestamp < zkProofs[1].generatedAt
    /\ verificationHistory[1][2].isValid
    /\ totalVerifications = 2

Flagged(p) ==
    zkProofs[p].healthRecordHash
        \in zkHealthAuthorities[zkProofs[p].authority].revokedRecords

\* C38: a health-record revocation flag is permanent and is not consulted
\* at submission: no step removes a hash from an authority's set of revoked
\* record hashes, a stored proof of authority a for a flagged hash never
\* verifies true, and submitProof accepts a new proof of a for an already
\* flagged hash under its usual conditions, the stored proof then being
\* one that does not verify true.
C38_FlagPermanent ==
    /\ [][\A a \in Identities :
            zkHealthAuthorities[a].revokedRecords
                \subseteq zkHealthAuthorities'[a].revokedRecords]_vars
    /\ [](\A p \in StoredProofs : Flagged(p) => ~verifyZKProofIsValid(p))
    /\ [][\A c \in Identities, p \in StoredProofs, x \in Contexts :
            (verifyZKProofErr = "none" /\ Flagged(p) /\ verifyZKProof(c, p, x)) =>
                /\ last'.ret = FALSE
                /\ zkProofs'[p].verificationCount = zkProofs[p].verificationCount
         ]_vars
    /\ [](\A p \in ProofHashes \ {0}, a \in Identities :
            \A h \in zkHealthAuthorities[a].revokedRecords \ {0} :
                (/\ ~zkPaused
                 /\ zkProofs[p].generatedAt = 0
                 /\ zkHealthAuthorities[a].isActive) =>
                    submitZKProofErr(p, h, a) = "none")
    /\ [][\A c \in Identities, p \in ProofHashes, a \in Identities,
             t \in ExpiryTimes :
            \A h \in zkHealthAuthorities[a].revokedRecords :
                (submitZKProofErr(p, h, a) = "none" /\ submitZKProof(c, p, h, a, t)) =>
                    /\ zkProofs'[p].generatedAt # 0
                    /\ Flagged(p)'
                    /\ ~verifyZKProofIsValid(p)'
         ]_vars

\* C38 witness: alice flagged a record hash and a proof of hers for that
\* hash has just been submitted and stored; alice is active and the proof
\* is neither revoked nor expired, yet it does not verify.
C38_Witness ==
    /\ last.op = "submitZKProof"
    /\ zkProofs[1].generatedAt # 0
    /\ zkProofs[1].authority = "alice"
    /\ Flagged(1)
    /\ zkHealthAuthorities["alice"].isActive
    /\ ~zkProofs[1].isRevoked
    /\ ~(zkProofs[1].expiresAt > 0 /\ now > zkProofs[1].expiresAt)
    /\ ~verifyZKProofIsValid(1)

\* C39: in HealthPassService, verifyHealthProof returns isValid = true
\* exactly for a stored proof that is not revoked and whose expiresAt is not
\* before now, and raises that proof's verificationCount by exactly 1 in
\* that case and changes nothing otherwise; revokeHealthProof sets isRevoked
\* exactly when the proof is stored, not yet revoked and the wallet address
\* equals the proof's authority, and otherwise returns success = false and
\* leaves the proofs unchanged, a second revocation included.
C39_ServiceVerifyRevoke ==
    /\ [](\A h \in SvcProofHashes :
            verifyHealthProofIsValid(h)
                <=> (/\ h \in DOMAIN proofs
                     /\ ~proofs[h].isRevoked
                     /\ proofs[h].expiresAt >= now))
    /\ [][\A h \in SvcProofHashes :
            verifyHealthProof(h) =>
                /\ last'.ret = verifyHealthProofIsValid(h)
                /\ proofs' = IF verifyHealthProofIsValid(h)
                             THEN [proofs EXCEPT ![h].verificationCount = @ + 1]
                             ELSE proofs
         ]_vars
    /\ [](\A h \in SvcProofHashes : revokeHealthProofMessage(h) # "Error")
    /\ [][\A h \in SvcProofHashes :
            LET ok == /\ h \in DOMAIN proofs
                      /\ ~proofs[h].isRevoked
                      /\ walletAddress = proofs[h].authority IN
            revokeHealthProof(h) =>
                /\ last'.ret = ok
                /\ proofs' = IF ok THEN [proofs EXCEPT ![h].isRevoked = TRUE]
                             ELSE proofs
                /\ ok => revokeHealthProofMessage(h)' = "Proof is already revoked"
         ]_vars

\* C39 witness: the only stored proof was verified once, is at its expiry
\* instant and has been revoked by its authority's wallet; a further
\* revocation has just reported failure.
C39_Witness ==
    /\ last.op = "revokeHealthProof"
    /\ last.ret = FALSE
    /\ \E h \in SvcProofHashes :
          /\ DOMAIN proofs = {h}
          /\ proofs[h].isRevoked
          /\ proofs[h].verificationCount = 1
          /\ proofs[h].expiresAt = now
          /\ proofs[h].authority = walletAddress

\* the proof hashes of the proofs a listing returns
Listed(limit, includeExpired) ==
    LET list == getHealthProofs(limit, includeExpired) IN
    {list[i].proofHash : i \in 1..Len(list)}

\* C40: in HealthPassService, at any time now, getHealthProofs with
\* includeExpired = false and a limit of at least the number of stored
\* proofs returns exactly the stored proofs for which verifyHealthProof
\* would return isValid = true at that same now, a proof whose expiresAt
\* equals now included.
C40_Original ==
    Len(proofOrder) <= DefaultLimit =>
        Listed(DefaultLimit, FALSE)
            = {h \in DOMAIN proofs : verifyHealthProofIsValid(h)}

====
